---------------------------- MODULE Spec2Model ----------------------------
(***************************************************************************)
(* A model of the jobFlow execution engine:                                *)
(*   - CompositeLogSink (infrastructure/logging/composite.py): the fan-out *)
(*     of emit and close over the registered child sinks;                  *)
(*   - LocalSubprocessExecutor, LambdaExecutor and RunScriptUseCase: one   *)
(*     run of a script with staging, streaming, upload and cleanup.        *)
(* The two parts have their own specifications (SpecSink, SpecRun) over    *)
(* the same variables; the part a specification does not move stays idle.  *)
(***************************************************************************)
EXTENDS Integers, Sequences, FiniteSets, TLC

(***************************************************************************)
(* Bounds of the model.                                                    *)
(***************************************************************************)
\* Child sinks that exist (LogSink objects a caller may register).
NumChildren == 3
\* Longest list of children handed to the constructor or grown by add_sink.
MaxSinks == 3
\* Calls made on one CompositeLogSink.
MaxCalls == 3
\* File requirements and file outputs a config declares, together.
MaxFiles == 2
\* Lines a script writes to its two output streams together.
MaxLines == 2
\* The same two for the runs of configs with a timeout.
TimedFiles == 1
TimedLines == 1
\* The same two for the runs that look at the streams of the script.
StreamFiles == 1
StreamLines == 3
\* Lines a pipe (with the reader's buffer behind it) holds before a write
\* to it blocks the writing process.
PipeCap == 1
\* The same two for the runs with a sink whose emit raises.
GuardFiles == 1
GuardLines == 1
\* The same two for the runs that look at the caller's process.
HostFiles == 1
HostLines == 1
\* The most characters a script writes to a stream in the text specification.
MaxText == 4
\* The most providers registered with a CompositeFileProvider.
MaxProviders == 3
\* The most cleanup calls made for one staged path.
MaxCleanups == 2
\* The most calls made on one SSELogSink.
MaxSSECalls == 3

VARIABLES
    \* ---- CompositeLogSink ----
    sinks,      \* self._sinks: the registered children, in registration order
    closed,     \* self._closed
    closeLog,   \* the children whose close() has been called, in call order
    callNo,     \* number of calls made on the composite so far
    lastCall,   \* the last call on the composite: what it was given and did
    \* ---- one run of a script ----
    cfg,        \* the executor's wiring and the ScriptConfig (read-only)
    pc,         \* the control point of the run
    resume,     \* where a suspended generator continues on the next item
    trace,      \* everything the run did to its collaborators, in order
    staged,     \* the local staged_files of execute / execute_async
    proc,       \* the script: "none", "running", "blocked_out",
                \* "blocked_err" (in a write to a full pipe) or "exited"
    written,    \* lines the script has written so far
    outBuf,     \* stdout lines written and not yet read
    errBuf,     \* stderr lines written and not yet read
    outLines,   \* stdout_lines: the captured stdout
    errLines,   \* stderr_lines: the captured stderr
    exitCode,   \* the exit code of the script once it has exited
    result,     \* the ExecutionResult the executor built
    pending,    \* the exception in flight
    toYield,    \* items the in-process generator still has to yield
    deadline,   \* the configured timeout elapsed while the script was running
    exOutcome,  \* how the executor's call ended
    outcome,    \* how the use case's call ended for the caller
    host,       \* the process-wide state of the caller's process: sys.stdout,
                \* sys.stderr, the working directory and os.environ
    \* ---- the text of one stream of a deterministic script ----
    textIn,     \* the executor, and the characters the script writes
    textRun,    \* the text the ExecutionResult of run has for the stream
    textStream, \* the lines run_streaming yields for the stream, in order
    \* ---- CompositeFileProvider and the providers it routes to ----
    providers,        \* self._providers: the registered providers, in order
    defaultProvider,  \* self._default_provider, or "none"
    provCall,         \* the last call on the composite and where it went
    pathState,        \* the staged path on disk: what it is, and whether
                      \* the file system lets it be removed
    cleanLog,         \* the cleanup calls made for the staged path, in order
    \* ---- one call of a constructor or of a function ----
    call,       \* the call: what is called, and its arguments
    ret,        \* how the call ended: its value, or what it raised
    \* ---- SSELogSink ----
    sseClosed,  \* self._closed
    sseLog      \* the calls made on the sink, in order: what each was given,
                \* what it handed to the send callback, whether it raised

sinkVars == <<sinks, closed, closeLog, callNo, lastCall>>

runVars == <<cfg, pc, resume, trace, staged, proc, written, outBuf, errBuf,
             outLines, errLines, exitCode, result, pending, toYield,
             deadline, exOutcome, outcome, host>>

\* The variables of the specifications of single operations.
textVars == <<textIn, textRun, textStream>>
provVars == <<providers, defaultProvider, provCall, pathState, cleanLog>>
callVars == <<call, ret>>
sseVars == <<sseClosed, sseLog>>
pureVars == <<textVars, provVars, callVars, sseVars>>

vars == <<sinks, closed, closeLog, callNo, lastCall,
          cfg, pc, resume, trace, staged, proc, written, outBuf, errBuf,
          outLines, errLines, exitCode, result, pending, toYield,
          deadline, exOutcome, outcome, host,
          textIn, textRun, textStream,
          providers, defaultProvider, provCall, pathState, cleanLog,
          call, ret,
          sseClosed, sseLog>>

Children == 1..NumChildren

RECURSIVE SeqsUpTo(_, _)
\* All sequences over S of length at most n.
SeqsUpTo(S, n) ==
    IF n = 0 THEN {<<>>}
    ELSE LET shorter == SeqsUpTo(S, n - 1)
         IN shorter \cup {Append(s, x) : s \in {t \in shorter : Len(t) = n - 1}, x \in S}

\* The subsequence of s of the elements satisfying membership in S.
Keep(s, S) == SelectSeq(s, LAMBDA x : x \in S)

RECURSIVE RemoveFirst(_, _)
\* list.remove(x): s without its first occurrence of x.
RemoveFirst(s, x) ==
    IF s = <<>> THEN <<>>
    ELSE IF Head(s) = x THEN Tail(s)
    ELSE <<Head(s)>> \o RemoveFirst(Tail(s), x)

InSeq(x, s) == \E i \in 1..Len(s) : s[i] = x

(***************************************************************************)
(* CompositeLogSink                                                        *)
(***************************************************************************)
\* What a fan-out loop did: the children it called, those whose call
\* returned normally, and whether an exception left the loop.
NoFanOut == [called |-> <<>>, delivered |-> <<>>, raised |-> FALSE]

RECURSIVE FanOutNoCatch(_, _, _)
\* The loop without its try/except: the first failing child ends it.
FanOutNoCatch(ss, fail, acc) ==
    IF ss = <<>> THEN acc
    ELSE LET c == Head(ss)
         IN IF c \in fail
            THEN [acc EXCEPT !.called = Append(@, c), !.raised = TRUE]
            ELSE FanOutNoCatch(Tail(ss), fail,
                     [acc EXCEPT !.called = Append(@, c),
                                 !.delivered = Append(@, c)])

RECURSIVE FanOut(_, _, _)
\* for sink in self._sinks: try: sink.<op>(...) except Exception: pass
\* fail is the set of children whose call raises.
FanOut(ss, fail, acc) ==
    IF ss = <<>> THEN acc
    ELSE LET c == Head(ss)
         IN IF c \in fail
            THEN FanOut(Tail(ss), fail, [acc EXCEPT !.called = Append(@, c)])
            ELSE FanOut(Tail(ss), fail,
                     [acc EXCEPT !.called = Append(@, c),
                                 !.delivered = Append(@, c)])

\* if self._closed: return
EmitGuardMissing(isClosed, ss, fail) == FanOut(ss, fail, NoFanOut)

EmitBody(isClosed, ss, fail) ==
    IF isClosed THEN NoFanOut ELSE FanOut(ss, fail, NoFanOut)

CloseGuardMissing(isClosed, ss, fail) == FanOut(ss, fail, NoFanOut)

CloseBody(isClosed, ss, fail) ==
    IF isClosed THEN NoFanOut ELSE FanOut(ss, fail, NoFanOut)

Called(op, fail, did) ==
    [op |-> op, sinksBefore |-> sinks, closedBefore |-> closed,
     fail |-> fail, called |-> did.called, delivered |-> did.delivered,
     raised |-> did.raised]

\* CompositeLogSink.emit(level, message, metadata)
Emit ==
    /\ callNo < MaxCalls
    /\ \E fail \in SUBSET Children :
         LET did == EmitBody(closed, sinks, fail)
         IN lastCall' = Called("emit", fail, did)
    /\ callNo' = callNo + 1
    /\ UNCHANGED <<sinks, closed, closeLog>>
    /\ UNCHANGED runVars
    /\ UNCHANGED pureVars

\* CompositeLogSink.close()
Close ==
    /\ callNo < MaxCalls
    /\ \E fail \in SUBSET Children :
         LET did == CloseBody(closed, sinks, fail)
         IN /\ lastCall' = Called("close", fail, did)
            /\ closeLog' = closeLog \o did.called
    /\ closed' = TRUE
    /\ callNo' = callNo + 1
    /\ UNCHANGED sinks
    /\ UNCHANGED runVars
    /\ UNCHANGED pureVars

\* CompositeLogSink.add_sink(sink)
AddSink ==
    /\ callNo < MaxCalls
    /\ \E c \in Children :
         /\ closed \/ Len(sinks) < MaxSinks
         /\ sinks' = IF closed THEN sinks ELSE Append(sinks, c)
         /\ lastCall' = [Called("add_sink", {}, NoFanOut) EXCEPT !.fail = {c}]
    /\ callNo' = callNo + 1
    /\ UNCHANGED <<closed, closeLog>>
    /\ UNCHANGED runVars
    /\ UNCHANGED pureVars

\* CompositeLogSink.remove_sink(sink)
RemoveSink ==
    /\ callNo < MaxCalls
    /\ \E c \in Children :
         /\ sinks' = IF InSeq(c, sinks) THEN RemoveFirst(sinks, c) ELSE sinks
         /\ lastCall' = [Called("remove_sink", {}, NoFanOut) EXCEPT !.fail = {c}]
    /\ callNo' = callNo + 1
    /\ UNCHANGED <<closed, closeLog>>
    /\ UNCHANGED runVars
    /\ UNCHANGED pureVars

(***************************************************************************)
(* One run of a script: RunScriptUseCase.execute / execute_async around    *)
(* LocalSubprocessExecutor or LambdaExecutor. The use case hands config    *)
(* and sink through, so the executor's own call is the inner part of the   *)
(* same run: its items are the "dyield" events, its end is exOutcome.      *)
(***************************************************************************)
\* What a fetch of a requirement's source does in the world of the run:
\* it returns the staged path, raises FileNotFoundError (the source does not
\* exist) or raises another error (PermissionError, a transfer error).
FetchOutcomes == {"ok", "notfound", "error"}
\* What the upload of an output meets: the local file exists and put_file
\* returns, the local file was never created, or put_file raises.
PutOutcomes == {"uploaded", "missing", "error"}
CleanupOutcomes == {"ok", "raise"}
SpawnOutcomes == {"ok", "notfound"}
ExitCodes == {0, 1}

Ev(t, a, b) == [t |-> t, a |-> a, b |-> b]

NoResult == [status |-> "none", exit_code |-> -1, stdout |-> <<>>, stderr |-> <<>>]
NoExc == [type |-> "none", phase |-> "none", src |-> 0]
Exc(type, phase, src) == [type |-> type, phase |-> phase, src |-> src]

IsLocal == cfg.ex = "local"
IsLambda == cfg.ex = "lambda"
IsAsync == cfg.mode = "async"

\* if log_sink: log_sink.emit(level, message)
Log(level, msg) == IF cfg.sink THEN <<Ev("emit", level, msg)>> ELSE <<>>

LogIf(on, level, msg) == IF on THEN Log(level, msg) ELSE <<>>

\* The events of RunScriptUseCase for which the sink's emit may raise.
SinkEvents == {"starting", "completed", "error"}

\* The sink's emit raises on the use case's event ev.
Raises(ev) == cfg.sink /\ ev \in cfg.raises

\* RunScriptUseCase._emit_log(level, message): nothing without a sink; the
\* sink's emit gets the event, or raises on it.
EmitLog(level, ev, msg) ==
    IF ~cfg.sink THEN <<>>
    ELSE IF ev \in cfg.raises THEN <<Ev("emit_raised", level, msg)>>
    ELSE <<Ev("emit", level, msg)>>

SinkError(ev) == Exc("SinkError", ev, 0)

(* ---- staging: _stage_files (LambdaExecutor), _stage_files_async ---- *)
NoStaging == [events |-> <<>>, staged |-> <<>>, abort |-> 0]

RECURSIVE StageFrom(_, _, _, _)
\* The loop over config.file_requirements from requirement i on. logs: the
\* method is handed the log sink (_stage_files_async is not).
StageFrom(rs, i, logs, acc) ==
    IF i > Len(rs) THEN acc
    ELSE LET r == rs[i]
             fetch == <<Ev("fetch", i, r.src)>>
         IN CASE r.src = "ok" ->
                   StageFrom(rs, i + 1, logs,
                       [acc EXCEPT !.events = @ \o fetch
                                        \o LogIf(logs, "INFO", <<"staged", i>>),
                                   !.staged = Append(@, i)])
              [] r.src = "notfound" ->
                   IF r.required
                   THEN [acc EXCEPT !.events = @ \o fetch, !.abort = i]
                   ELSE StageFrom(rs, i + 1, logs,
                            [acc EXCEPT !.events = @ \o fetch
                                  \o LogIf(logs, "WARNING", <<"optional_input_missing", i>>)])
              [] OTHER ->
                   IF r.required
                   THEN [acc EXCEPT !.events = @ \o fetch, !.abort = i]
                   ELSE StageFrom(rs, i + 1, logs,
                            [acc EXCEPT !.events = @ \o fetch])

\* LambdaExecutor._stage_files(config, log_sink)
StageFiles(rs) == StageFrom(rs, 1, TRUE, NoStaging)

\* LocalSubprocessExecutor._stage_files_async(config)
StageFilesAsync(rs) == StageFrom(rs, 1, FALSE, NoStaging)

(* ---- upload: _upload_output_files, _upload_output_files_async ---- *)
NoUpload == [events |-> <<>>, abort |-> 0]

RECURSIVE UploadStopsAtOptional(_, _, _, _, _)
\* A variant of the loop that gives up on the remaining outputs at the first
\* optional output that is missing or whose put fails.
UploadStopsAtOptional(os, oc, j, logs, acc) ==
    IF j > Len(os) THEN acc
    ELSE LET o == os[j]
             exists == <<Ev("exists", j, oc[j] # "missing")>>
             put == <<Ev("put", j, oc[j])>>
         IN CASE oc[j] = "missing" ->
                   IF o.required
                   THEN [acc EXCEPT !.events = @ \o exists, !.abort = j]
                   ELSE [acc EXCEPT !.events = @ \o exists
                              \o LogIf(logs, "WARNING", <<"optional_output_missing", j>>)]
              [] oc[j] = "uploaded" ->
                   UploadStopsAtOptional(os, oc, j + 1, logs,
                       [acc EXCEPT !.events = @ \o exists \o put
                                  \o LogIf(logs, "INFO", <<"uploaded", j>>)])
              [] OTHER ->
                   IF o.required
                   THEN [acc EXCEPT !.events = @ \o exists \o put, !.abort = j]
                   ELSE [acc EXCEPT !.events = @ \o exists \o put
                              \o LogIf(logs, "WARNING", <<"optional_upload_failed", j>>)]

RECURSIVE UploadFrom(_, _, _, _, _)
\* The loop over config.file_outputs from output j on; oc[j] is what the
\* upload of output j meets.
UploadFrom(os, oc, j, logs, acc) ==
    IF j > Len(os) THEN acc
    ELSE LET o == os[j]
             exists == <<Ev("exists", j, oc[j] # "missing")>>
             put == <<Ev("put", j, oc[j])>>
         IN CASE oc[j] = "missing" ->
                   IF o.required
                   THEN [acc EXCEPT !.events = @ \o exists, !.abort = j]
                   ELSE UploadFrom(os, oc, j + 1, logs,
                            [acc EXCEPT !.events = @ \o exists
                                  \o LogIf(logs, "WARNING", <<"optional_output_missing", j>>)])
              [] oc[j] = "uploaded" ->
                   UploadFrom(os, oc, j + 1, logs,
                       [acc EXCEPT !.events = @ \o exists \o put
                                  \o LogIf(logs, "INFO", <<"uploaded", j>>)])
              [] OTHER ->
                   IF o.required
                   THEN [acc EXCEPT !.events = @ \o exists \o put, !.abort = j]
                   ELSE UploadFrom(os, oc, j + 1, logs,
                            [acc EXCEPT !.events = @ \o exists \o put
                                  \o LogIf(logs, "WARNING", <<"optional_upload_failed", j>>)])

\* _upload_output_files(config, log_sink) of both executors
UploadOutputFiles(os, oc) == UploadFrom(os, oc, 1, TRUE, NoUpload)

\* LocalSubprocessExecutor._upload_output_files_async(config)
UploadOutputFilesAsync(os, oc) == UploadFrom(os, oc, 1, FALSE, NoUpload)

(* ---- cleanup: the finally block of execute / execute_async ---- *)
RECURSIVE CleanupFrom(_, _, _, _)
\* for staged_file in staged_files: self._file_provider.cleanup(staged_file)
CleanupFrom(st, oc, k, acc) ==
    IF k > Len(st) THEN acc
    ELSE IF oc[k] = "raise"
         THEN [acc EXCEPT !.events = Append(@, Ev("cleanup", st[k], "raise")),
                          !.abort = k]
         ELSE CleanupFrom(st, oc, k + 1,
                  [acc EXCEPT !.events = Append(@, Ev("cleanup", st[k], "ok"))])

CleanupStaged(st, oc) == CleanupFrom(st, oc, 1, [events |-> <<>>, abort |-> 0])

(* ---- the order of the steps of each executor ---- *)
\* A status that does not look at the exit code.
StatusAlwaysSuccess(code) == "success"

\* A variant of the flow that uploads the outputs right after the script
\* was started, before its output is read and its exit code awaited.
FlowUploadEarly(p) ==
    CASE p = "new" -> "stage"
      [] p = "stage" -> "spawn"
      [] p = "spawn" -> "upload"
      [] p = "upload" -> IF IsLambda THEN "in_script"
                         ELSE IF IsAsync THEN "read_out" ELSE "communicate"
      [] p = "read_out" -> "read_err"
      [] p = "read_err" -> "wait"
      [] p \in {"communicate", "in_script"} -> "finally"
      [] p = "wait" -> "yield_result"
      [] p = "yield_result" -> "finally"
      [] OTHER -> "exit"

\* The control point that follows control point p when p ends normally.
Flow(p) ==
    CASE p = "new" -> "stage"
      [] p = "stage" -> "spawn"
      [] p = "spawn" -> IF IsLambda THEN "in_script"
                        ELSE IF IsAsync THEN "read_out" ELSE "communicate"
      [] p = "read_out" -> "read_err"
      [] p = "read_err" -> "wait"
      [] p \in {"communicate", "in_script", "wait"} -> "upload"
      [] p = "upload" -> IF IsLocal /\ IsAsync THEN "yield_result" ELSE "finally"
      [] p = "yield_result" -> "finally"
      [] OTHER -> "exit"

\* An item of the sequence a generator yields.
LineItem(stream, id) == [k |-> stream, v |-> id]
ResultItem(res) == [k |-> "result", v |-> res]

\* A use case that yields the result to the consumer first and emits the
\* completion event afterwards.
YieldBeforeCompletion(item) ==
    <<Ev("dyield", item.k, item.v), Ev("yield", item.k, item.v)>>
    \o (IF item.k = "result"
        THEN EmitLog("INFO", "completed", <<"completed", item.v.exit_code>>)
        ELSE <<>>)

\* The executor's generator yields an item ("dyield") and
\* RunScriptUseCase.execute_async forwards it to the consumer ("yield"): a
\* line as it is, the result after the completion event.
YieldEvents(item) ==
    <<Ev("dyield", item.k, item.v)>>
    \o (IF item.k = "result"
        THEN EmitLog("INFO", "completed", <<"completed", item.v.exit_code>>)
        ELSE <<>>)
    \o (IF item.k = "result" /\ Raises("completed")
        THEN EmitLog("ERROR", "error", <<"unexpected", 0>>)
        ELSE <<Ev("yield", item.k, item.v)>>)

\* The sink raises on the completion event of execute_async: the use case's
\* generator leaves its loop through except Exception, and the item is not
\* forwarded.
ForwardFails(item) == item.k = "result" /\ Raises("completed")

\* except Exception in RunScriptUseCase: the error event, then the wrapped
\* error is raised, unless the error event's emit raised first.
Wrapped ==
    [kind |-> "raised",
     exc |-> IF Raises("error") THEN SinkError("error") ELSE Exc("SEE", "unexpected", 0),
     result |-> NoResult]

Status(code) == IF code = 0 THEN "success" ELSE "failed"

RECURSIVE LineItems(_, _)
LineItems(stream, ids) ==
    IF ids = <<>> THEN <<>>
    ELSE <<LineItem(stream, Head(ids))>> \o LineItems(stream, Tail(ids))

\* A loop over the captured lines that emits them last line first.
RECURSIVE LineLogsReversed(_, _)
LineLogsReversed(level, ids) ==
    IF ids = <<>> THEN <<>>
    ELSE LineLogsReversed(level, Tail(ids)) \o Log(level, <<"line", Head(ids)>>)

\* for line in stdout.splitlines(): log_sink.emit(level, line)
RECURSIVE LineLogs(_, _)
LineLogs(level, ids) ==
    IF ids = <<>> THEN <<>>
    ELSE Log(level, <<"line", Head(ids)>>) \o LineLogs(level, Tail(ids))

\* A replay that yields the result before the lines.
ReplayResultFirst(res) ==
    <<ResultItem(res)>> \o LineItems("out", res.stdout) \o LineItems("err", res.stderr)

\* A replay that yields the stderr lines before the stdout lines.
ReplayStderrFirst(res) ==
    LineItems("err", res.stderr) \o LineItems("out", res.stdout) \o <<ResultItem(res)>>

\* LambdaExecutor.execute_async after execute returned: the stdout lines,
\* the stderr lines, the result.
ReplayItems(res) ==
    LineItems("out", res.stdout) \o LineItems("err", res.stderr) \o <<ResultItem(res)>>

(* ---- the steps of a run ---- *)
\* RunScriptUseCase.execute / execute_async: the starting event, then the
\* delegate executor is entered.
Begin ==
    /\ pc = "new"
    /\ trace' = trace \o EmitLog("INFO", "starting", <<"starting", 0>>)
    /\ IF Raises("starting")
       THEN /\ outcome' = [kind |-> "raised", exc |-> SinkError("starting"),
                           result |-> NoResult]
            /\ pc' = "done"
       ELSE /\ pc' = Flow("new")
            /\ UNCHANGED outcome
    /\ UNCHANGED <<cfg, resume, staged, proc, written, outBuf, errBuf, outLines,
                   errLines, exitCode, result, pending, toYield, deadline, exOutcome>>
    /\ UNCHANGED host
    /\ UNCHANGED sinkVars
    /\ UNCHANGED pureVars

\* The staging at the head of the try block. LocalSubprocessExecutor.execute
\* has none: it goes straight to the subprocess.
Stage ==
    /\ pc = "stage"
    /\ IF (IsLocal /\ ~IsAsync) \/ ~cfg.provider \/ cfg.reqs = <<>>
       THEN /\ pc' = Flow("stage")
            /\ UNCHANGED <<trace, staged, pending>>
       ELSE LET s == IF IsLocal THEN StageFilesAsync(cfg.reqs)
                     ELSE StageFiles(cfg.reqs)
            IN /\ trace' = trace \o s.events
               /\ IF s.abort = 0
                  THEN /\ staged' = s.staged
                       /\ pc' = Flow("stage")
                       /\ UNCHANGED pending
                  ELSE /\ pending' = Exc("SEE", "staging", s.abort)
                       /\ pc' = "finally"
                       /\ UNCHANGED staged
    /\ UNCHANGED <<cfg, resume, proc, written, outBuf, errBuf, outLines,
                   errLines, exitCode, result, toYield, deadline, exOutcome, outcome>>
    /\ UNCHANGED host
    /\ UNCHANGED sinkVars
    /\ UNCHANGED pureVars

\* The caller's process as a call finds it.
HostOrig == [out |-> "orig", err |-> "orig", cwd |-> "orig", env |-> "orig"]

\* LambdaExecutor.execute, "Set environment variables": every override of
\* the config is written into os.environ of the caller's process.
EnvSet(h) == IF cfg.envs THEN "overridden" ELSE h.env

\* LambdaExecutor.execute before the script: sys.stdout and sys.stderr are
\* the capture buffers, the overrides are in os.environ, the working
\* directory is config.working_directory when one is configured.
Entered(h) ==
    [out |-> "capture", err |-> "capture",
     cwd |-> IF cfg.workdir = "none" THEN h.cwd ELSE "work",
     env |-> EnvSet(h)]

\* The inner finally block of LambdaExecutor.execute: the working directory
\* is restored when one was configured, the two streams always; os.environ
\* is not written.
Restored(h) ==
    [out |-> "orig", err |-> "orig",
     cwd |-> IF cfg.workdir = "none" THEN h.cwd ELSE "orig",
     env |-> h.env]

\* How a script may end: it runs to its end, raises an exception, or calls
\* sys.exit with 0, with 1 or with a message.
Terminations == {"return", "raise", "exit0", "exit1", "exit_str"}

\* The exit code of a script that ended by t: the one of the interpreter
\* process, or the one LambdaExecutor.execute derives.
TermCode(t) ==
    CASE t \in {"return", "exit0"} -> 0
      [] t \in {"raise", "exit1"} -> 1
      [] OTHER -> IF IsLambda THEN 0 ELSE 1

\* What made the start of the script fail: the interpreter binary is
\* missing, or the configured working directory cannot be entered. Both
\* reach the executor as a FileNotFoundError.
SpawnFailure(so) == IF so = "notfound" THEN "interpreter" ELSE "workdir"

\* subprocess.Popen / asyncio.create_subprocess_exec / exec_module: the
\* script starts, or the interpreter is not found; in LambdaExecutor the
\* streams are redirected and the directory changed first, and a
\* working directory that cannot be entered ends the call (the except
\* clause puts the streams back; the overrides are in os.environ by then).
Spawn ==
    /\ pc = "spawn"
    /\ \E so \in SpawnOutcomes :
         /\ so = "ok" \/ IsLocal
         /\ IF so = "ok" /\ cfg.workdir # "bad"
            THEN /\ proc' = "running"
                 /\ trace' = Append(trace, Ev("start", 0, 0))
                 /\ pc' = Flow("spawn")
                 /\ host' = IF IsLambda THEN Entered(host) ELSE host
                 /\ UNCHANGED pending
            ELSE /\ pending' = Exc("SEE", IF IsLambda THEN "chdir" ELSE "spawn", 0)
                 /\ trace' = Append(trace, Ev("spawn_failed", SpawnFailure(so), 0))
                 /\ pc' = "finally"
                 /\ host' = IF IsLambda THEN [host EXCEPT !.env = EnvSet(host)] ELSE host
                 /\ UNCHANGED proc
    /\ UNCHANGED <<cfg, resume, staged, written, outBuf, errBuf, outLines,
                   errLines, exitCode, result, toYield, deadline, exOutcome, outcome>>
    /\ UNCHANGED sinkVars
    /\ UNCHANGED pureVars

\* The pipes of the asynchronous subprocess are read by the generator only;
\* communicate() and the in-process StringIO take whatever is written.
Bounded == IsLocal /\ IsAsync

\* The script is alive: running, or blocked in a write to a full pipe.
Alive == proc \in {"running", "blocked_out", "blocked_err"}

\* The script writes a line to stdout; the write blocks while the pipe is
\* full and completes once the reader has made room.
ProcWriteOut ==
    /\ written < cfg.lines
    /\ IF Bounded /\ Len(outBuf) >= PipeCap
       THEN /\ proc = "running"
            /\ proc' = "blocked_out"
            /\ UNCHANGED <<outBuf, written>>
       ELSE /\ proc \in {"running", "blocked_out"}
            /\ proc' = "running"
            /\ outBuf' = Append(outBuf, written + 1)
            /\ written' = written + 1
    /\ UNCHANGED <<cfg, pc, resume, trace, staged, errBuf, outLines,
                   errLines, exitCode, result, pending, toYield, deadline,
                   exOutcome, outcome>>
    /\ UNCHANGED host
    /\ UNCHANGED sinkVars
    /\ UNCHANGED pureVars

\* The script writes a line to stderr, likewise.
ProcWriteErr ==
    /\ written < cfg.lines
    /\ IF Bounded /\ Len(errBuf) >= PipeCap
       THEN /\ proc = "running"
            /\ proc' = "blocked_err"
            /\ UNCHANGED <<errBuf, written>>
       ELSE /\ proc \in {"running", "blocked_err"}
            /\ proc' = "running"
            /\ errBuf' = Append(errBuf, written + 1)
            /\ written' = written + 1
    /\ UNCHANGED <<cfg, pc, resume, trace, staged, outBuf, outLines,
                   errLines, exitCode, result, pending, toYield, deadline,
                   exOutcome, outcome>>
    /\ UNCHANGED host
    /\ UNCHANGED sinkVars
    /\ UNCHANGED pureVars

\* The line of the captured stderr that stands for the traceback
\* LambdaExecutor.execute prints when the script raised.
Traceback == 0

\* The script ends with an exit code; its streams reach end of file. In
\* LambdaExecutor.execute, except Exception prints the traceback of a
\* script's exception to the captured stderr.
ProcExit ==
    /\ proc = "running"
    /\ \E t \in cfg.terms :
         /\ exitCode' = TermCode(t)
         /\ trace' = Append(trace, Ev("exit", TermCode(t), t))
         /\ errBuf' = IF IsLambda /\ t = "raise"
                      THEN Append(errBuf, Traceback) ELSE errBuf
    /\ proc' = "exited"
    /\ host' = IF IsLambda /\ cfg.chdirs THEN [host EXCEPT !.cwd = "script"] ELSE host
    /\ UNCHANGED <<cfg, pc, resume, staged, written, outBuf, outLines,
                   errLines, result, pending, toYield, deadline, exOutcome, outcome>>
    /\ UNCHANGED sinkVars
    /\ UNCHANGED pureVars

ProcStep == ProcWriteOut \/ ProcWriteErr \/ ProcExit

\* config.timeout_seconds elapses while the script is still running.
DeadlinePasses ==
    /\ cfg.timeout
    /\ Alive
    /\ pc # "done"
    /\ ~deadline
    /\ deadline' = TRUE
    /\ UNCHANGED <<cfg, pc, resume, trace, staged, proc, written, outBuf, errBuf,
                   outLines, errLines, exitCode, result, pending, toYield, exOutcome, outcome>>
    /\ UNCHANGED host
    /\ UNCHANGED sinkVars
    /\ UNCHANGED pureVars

Built(code, out, err) ==
    [status |-> Status(code), exit_code |-> code, stdout |-> out, stderr |-> err]

\* LocalSubprocessExecutor.execute: process.communicate() returns when the
\* script has exited; then the lines go to the sink and the result is built.
Communicate ==
    /\ pc = "communicate"
    /\ proc = "exited"
    /\ outLines' = outBuf
    /\ errLines' = errBuf
    /\ outBuf' = <<>>
    /\ errBuf' = <<>>
    /\ trace' = trace \o LineLogs("INFO", outBuf) \o LineLogs("ERROR", errBuf)
    /\ result' = Built(exitCode, outBuf, errBuf)
    /\ pc' = Flow("communicate")
    /\ UNCHANGED <<cfg, resume, staged, proc, written, exitCode, pending,
                   toYield, deadline, exOutcome, outcome>>
    /\ UNCHANGED host
    /\ UNCHANGED sinkVars
    /\ UNCHANGED pureVars

\* LambdaExecutor.execute: exec_module has ended; the captured output goes
\* to the sink and the result is built.
ScriptReturn ==
    /\ pc = "in_script"
    /\ proc = "exited"
    /\ outLines' = outBuf
    /\ errLines' = errBuf
    /\ outBuf' = <<>>
    /\ errBuf' = <<>>
    /\ trace' = trace \o LineLogs("INFO", outBuf) \o LineLogs("ERROR", errBuf)
    /\ result' = Built(exitCode, outBuf, errBuf)
    /\ pc' = Flow("in_script")
    /\ host' = Restored(host)
    /\ UNCHANGED <<cfg, resume, staged, proc, written, exitCode, pending,
                   toYield, deadline, exOutcome, outcome>>
    /\ UNCHANGED sinkVars
    /\ UNCHANGED pureVars

\* execute_async: async for line in process.stdout
ReadOut ==
    /\ pc = "read_out"
    /\ IF outBuf # <<>>
       THEN /\ outLines' = Append(outLines, Head(outBuf))
            /\ outBuf' = Tail(outBuf)
            /\ trace' = trace \o Log("INFO", <<"line", Head(outBuf)>>)
                              \o YieldEvents(LineItem("out", Head(outBuf)))
            /\ pc' = "at_yield"
            /\ resume' = "read_out"
       ELSE /\ proc = "exited"
            /\ pc' = Flow("read_out")
            /\ UNCHANGED <<outLines, outBuf, trace, resume>>
    /\ UNCHANGED <<cfg, staged, proc, written, errBuf, errLines, exitCode,
                   result, pending, toYield, deadline, exOutcome, outcome>>
    /\ UNCHANGED host
    /\ UNCHANGED sinkVars
    /\ UNCHANGED pureVars

\* execute_async: async for line in process.stderr
ReadErr ==
    /\ pc = "read_err"
    /\ IF errBuf # <<>>
       THEN /\ errLines' = Append(errLines, Head(errBuf))
            /\ errBuf' = Tail(errBuf)
            /\ trace' = trace \o Log("ERROR", <<"line", Head(errBuf)>>)
                              \o YieldEvents(LineItem("err", Head(errBuf)))
            /\ pc' = "at_yield"
            /\ resume' = "read_err"
       ELSE /\ proc = "exited"
            /\ pc' = Flow("read_err")
            /\ UNCHANGED <<errLines, errBuf, trace, resume>>
    /\ UNCHANGED <<cfg, staged, proc, written, outBuf, outLines, exitCode,
                   result, pending, toYield, deadline, exOutcome, outcome>>
    /\ UNCHANGED host
    /\ UNCHANGED sinkVars
    /\ UNCHANGED pureVars

\* execute_async: exit_code = await process.wait(); the result is built.
Wait ==
    /\ pc = "wait"
    /\ proc = "exited"
    /\ result' = Built(exitCode, outLines, errLines)
    /\ pc' = Flow("wait")
    /\ UNCHANGED <<cfg, resume, trace, staged, proc, written, outBuf, errBuf,
                   outLines, errLines, exitCode, pending, toYield, deadline, exOutcome, outcome>>
    /\ UNCHANGED host
    /\ UNCHANGED sinkVars
    /\ UNCHANGED pureVars

\* An executor that uploads the outputs of successful runs only.
UploadsOnSuccess(res) ==
    cfg.provider /\ cfg.outs # <<>> /\ res.status = "success"

\* if self._file_provider and config.file_outputs: the condition of the
\* upload, evaluated when the result res has been built.
UploadsOutputs(res) == cfg.provider /\ cfg.outs # <<>>

\* if self._file_provider and config.file_outputs: upload the outputs
Upload ==
    /\ pc = "upload"
    /\ IF ~UploadsOutputs(result)
       THEN /\ pc' = Flow("upload")
            /\ UNCHANGED <<trace, pending>>
       ELSE \E oc \in [1..Len(cfg.outs) -> PutOutcomes] :
              LET u == IF IsLocal /\ IsAsync
                       THEN UploadOutputFilesAsync(cfg.outs, oc)
                       ELSE UploadOutputFiles(cfg.outs, oc)
              IN /\ trace' = trace \o u.events
                 /\ IF u.abort = 0
                    THEN pc' = Flow("upload") /\ UNCHANGED pending
                    ELSE /\ pending' = Exc("SEE", "upload", u.abort)
                         /\ pc' = "finally"
    /\ UNCHANGED <<cfg, resume, staged, proc, written, outBuf, errBuf, outLines,
                   errLines, exitCode, result, toYield, deadline, exOutcome, outcome>>
    /\ UNCHANGED host
    /\ UNCHANGED sinkVars
    /\ UNCHANGED pureVars

\* execute_async of the subprocess executor: yield result
YieldResult ==
    /\ pc = "yield_result"
    /\ trace' = trace \o YieldEvents(ResultItem(result))
    /\ IF ForwardFails(ResultItem(result))
       THEN pc' = "orphan" /\ outcome' = Wrapped
       ELSE pc' = "at_yield" /\ UNCHANGED outcome
    /\ resume' = Flow("yield_result")
    /\ UNCHANGED <<cfg, staged, proc, written, outBuf, errBuf, outLines, errLines,
                   exitCode, result, pending, toYield, deadline, exOutcome>>
    /\ UNCHANGED host
    /\ UNCHANGED sinkVars
    /\ UNCHANGED pureVars

\* The consumer asks for the next item: the generator resumes after its yield.
ConsumerNext ==
    /\ pc = "at_yield"
    /\ pc' = resume
    /\ UNCHANGED <<cfg, resume, trace, staged, proc, written, outBuf, errBuf,
                   outLines, errLines, exitCode, result, pending, toYield,
                   deadline, exOutcome, outcome>>
    /\ UNCHANGED host
    /\ UNCHANGED sinkVars
    /\ UNCHANGED pureVars

\* The consumer closes the sequence: GeneratorExit is raised at the yield.
\* No except clause of the generator catches it; the finally block of the
\* subprocess executor's generator runs.
ConsumerClose ==
    /\ pc = "at_yield"
    /\ pending' = Exc("GeneratorExit", "closed", 0)
    /\ pc' = IF IsLocal THEN "finally" ELSE "exit"
    /\ UNCHANGED <<cfg, resume, trace, staged, proc, written, outBuf, errBuf,
                   outLines, errLines, exitCode, result, toYield, deadline, exOutcome, outcome>>
    /\ UNCHANGED host
    /\ UNCHANGED sinkVars
    /\ UNCHANGED pureVars

\* The use case's generator has ended while the executor's generator was
\* suspended at a yield: the event loop finalizes the abandoned generator,
\* which raises GeneratorExit at that yield.
Finalize ==
    /\ pc = "orphan"
    /\ pending' = Exc("GeneratorExit", "closed", 0)
    /\ pc' = IF IsLocal THEN "finally" ELSE "exit"
    /\ UNCHANGED <<cfg, resume, trace, staged, proc, written, outBuf, errBuf,
                   outLines, errLines, exitCode, result, toYield, deadline, exOutcome, outcome>>
    /\ UNCHANGED host
    /\ UNCHANGED sinkVars
    /\ UNCHANGED pureVars

\* The finally block: cleanup of the staged files. In
\* LocalSubprocessExecutor.execute the name staged_files is never bound, so
\* with a file provider the block raises NameError.
Finally ==
    /\ pc = "finally"
    /\ \E oc \in [1..Len(staged) -> CleanupOutcomes] :
         LET c == CleanupStaged(staged, oc)
             exc == IF ~cfg.provider THEN pending
                    ELSE IF IsLocal /\ ~IsAsync THEN Exc("NameError", "cleanup", 0)
                    ELSE IF c.abort # 0 THEN Exc("Error", "cleanup", staged[c.abort])
                    ELSE pending
         IN /\ trace' = IF cfg.provider /\ ~(IsLocal /\ ~IsAsync)
                        THEN trace \o c.events ELSE trace
            /\ (~cfg.provider => c.abort = 0)
            /\ pending' = exc
            /\ IF IsLambda /\ IsAsync /\ exc = NoExc
               THEN pc' = "replay" /\ toYield' = ReplayItems(result)
               ELSE pc' = "exit" /\ UNCHANGED toYield
    /\ UNCHANGED <<cfg, resume, staged, proc, written, outBuf, errBuf, outLines,
                   errLines, exitCode, result, deadline, exOutcome, outcome>>
    /\ UNCHANGED host
    /\ UNCHANGED sinkVars
    /\ UNCHANGED pureVars

\* LambdaExecutor.execute_async: the next item of the finished run.
Replay ==
    /\ pc = "replay"
    /\ IF toYield # <<>>
       THEN /\ trace' = trace \o YieldEvents(Head(toYield))
            /\ toYield' = Tail(toYield)
            /\ IF ForwardFails(Head(toYield))
               THEN pc' = "orphan" /\ outcome' = Wrapped
               ELSE pc' = "at_yield" /\ UNCHANGED outcome
            /\ resume' = "replay"
       ELSE /\ pc' = "exit"
            /\ UNCHANGED <<trace, toYield, resume, outcome>>
    /\ UNCHANGED <<cfg, staged, proc, written, outBuf, errBuf, outLines, errLines,
                   exitCode, result, pending, deadline, exOutcome>>
    /\ UNCHANGED host
    /\ UNCHANGED sinkVars
    /\ UNCHANGED pureVars

\* How the executor's call ended.
ExecutorOutcome ==
    IF pending.type = "none"
    THEN [kind |-> IF IsAsync THEN "exhausted" ELSE "returned",
          exc |-> NoExc, result |-> result]
    ELSE IF pending.type = "GeneratorExit"
    THEN [kind |-> "closed", exc |-> pending, result |-> NoResult]
    ELSE [kind |-> "raised", exc |-> pending, result |-> NoResult]

\* The except clauses of RunScriptUseCase: a ScriptExecutionException is
\* re-raised, any other Exception is wrapped into one.
UseCaseOutcome(o) ==
    CASE o.kind = "raised" /\ o.exc.type = "SEE" ->
             IF Raises("error") THEN [o EXCEPT !.exc = SinkError("error")] ELSE o
      [] o.kind = "raised" /\ o.exc.type # "SEE" -> Wrapped
      [] o.kind = "returned" -> IF Raises("completed") THEN Wrapped ELSE o
      [] OTHER -> o

\* The events of the use case at the end of the executor's call: the
\* completion event of execute (execute_async emits it when the result item
\* arrives), or the error event of the except clause entered.
UseCaseEvents(o) ==
    CASE o.kind = "raised" /\ o.exc.type = "SEE" ->
             EmitLog("ERROR", "error", <<"failed", 0>>)
      [] o.kind = "raised" /\ o.exc.type # "SEE" ->
             EmitLog("ERROR", "error", <<"unexpected", 0>>)
      [] o.kind = "returned" ->
             EmitLog("INFO", "completed", <<"completed", o.result.exit_code>>)
             \o (IF Raises("completed")
                 THEN EmitLog("ERROR", "error", <<"unexpected", 0>>) ELSE <<>>)
      [] OTHER -> <<>>

\* The executor's call ends, and through the use case the caller's.
Finish ==
    /\ pc = "exit"
    /\ exOutcome' = ExecutorOutcome
    /\ IF outcome.kind = "none"
       THEN /\ outcome' = UseCaseOutcome(ExecutorOutcome)
            /\ trace' = trace \o UseCaseEvents(ExecutorOutcome)
       ELSE UNCHANGED <<outcome, trace>>
    /\ pc' = "done"
    /\ UNCHANGED <<cfg, resume, staged, proc, written, outBuf, errBuf, outLines,
                   errLines, exitCode, result, pending, toYield, deadline>>
    /\ UNCHANGED host
    /\ UNCHANGED sinkVars
    /\ UNCHANGED pureVars

Requirements == [required : BOOLEAN, src : FetchOutcomes]
Outputs == [required : BOOLEAN]

\* The configurations with at most maxFiles declared files, whose script
\* writes at most maxLines lines. Without a file provider the executors
\* never read the declared files, so those configs declare none.
Configs(maxFiles, maxLines, timeouts) ==
    {c \in [ex : {"local", "lambda"}, mode : {"sync", "async"},
            provider : BOOLEAN, sink : BOOLEAN, timeout : timeouts,
            lines : {maxLines}, raises : {{}},
            terms : {{"return", "raise"}}, workdir : {"none"}, chdirs : {FALSE},
            envs : {FALSE},
            reqs : SeqsUpTo(Requirements, maxFiles),
            outs : SeqsUpTo(Outputs, maxFiles)] :
        /\ Len(c.reqs) + Len(c.outs) <= maxFiles
        /\ c.provider \/ (c.reqs = <<>> /\ c.outs = <<>>)}

NoOutcome == [kind |-> "none", exc |-> NoExc, result |-> NoResult]

\* The sink part while a run is explored: an empty composite, never called.
SinkIdle ==
    /\ sinks = <<>>
    /\ closed = FALSE
    /\ closeLog = <<>>
    /\ callNo = 0
    /\ lastCall = [op |-> "new", sinksBefore |-> <<>>, closedBefore |-> FALSE,
                   fail |-> {}, called |-> <<>>, delivered |-> <<>>,
                   raised |-> FALSE]

RunStart(c) ==
    /\ cfg = c
    /\ pc = "new"
    /\ resume = "none"
    /\ trace = <<>>
    /\ staged = <<>>
    /\ proc = "none"
    /\ written = 0
    /\ outBuf = <<>>
    /\ errBuf = <<>>
    /\ outLines = <<>>
    /\ errLines = <<>>
    /\ exitCode = -1
    /\ result = NoResult
    /\ pending = NoExc
    /\ toYield = <<>>
    /\ deadline = FALSE
    /\ exOutcome = NoOutcome
    /\ outcome = NoOutcome
    /\ host = HostOrig

\* A call that has not been made and has no value yet.
NotCalled == [done |-> FALSE, v |-> <<>>]
Returned(v) == [done |-> TRUE, v |-> v]

TextIdle ==
    /\ textIn = [ex |-> "none", stream |-> "none", sink |-> FALSE, text |-> <<>>]
    /\ textRun = NotCalled
    /\ textStream = NotCalled

\* A composite without providers, never called; no staged path.
NoProvCall == [op |-> "new", path |-> "none", error |-> FALSE, invoked |-> <<>>]
ProvIdle ==
    /\ providers = <<>>
    /\ defaultProvider = "none"
    /\ provCall = NoProvCall
    /\ pathState = [kind |-> "absent", removable |-> TRUE]
    /\ cleanLog = <<>>

\* The single operations while a run or the sink is explored: none made.
\* No constructor or function under study.
CallIdle ==
    /\ call = [op |-> "none"]
    /\ ret = NotCalled

\* SSELogSink(send_callback): self._closed = False; no call made yet.
SSEIdle ==
    /\ sseClosed = FALSE
    /\ sseLog = <<>>

PureIdle == TextIdle /\ ProvIdle /\ CallIdle /\ SSEIdle

InitRun == \E c \in Configs(MaxFiles, MaxLines, {FALSE}) : RunStart(c) /\ SinkIdle /\ PureIdle

InitStream == \E c \in Configs(StreamFiles, StreamLines, {FALSE}) : RunStart(c) /\ SinkIdle /\ PureIdle

InitTimed == \E c \in Configs(TimedFiles, TimedLines, {TRUE}) : RunStart(c) /\ SinkIdle /\ PureIdle

\* The configs of runs with a sink, and every set of use-case events on
\* which the sink's emit raises.
GuardConfigs ==
    {[c EXCEPT !.raises = r] :
        c \in {d \in Configs(GuardFiles, GuardLines, {FALSE}) : d.sink},
        r \in SUBSET SinkEvents}

\* The configs of runs whose script may end in every way; for the
\* in-process executor with and without a working directory (one that can
\* be entered, one that cannot), a script that changes directory or not,
\* and environment overrides or none; for the subprocess executor with and
\* without a working directory.
HostConfigs ==
    {h \in {[c EXCEPT !.terms = Terminations, !.workdir = w, !.chdirs = ch,
                      !.envs = e] :
                c \in Configs(HostFiles, HostLines, {FALSE}),
                w \in {"none", "ok", "bad"}, ch \in BOOLEAN, e \in BOOLEAN} :
        h.ex = "local" => (~h.chdirs /\ ~h.envs)}

InitHost == \E c \in HostConfigs : RunStart(c) /\ SinkIdle /\ PureIdle

InitGuard == \E c \in GuardConfigs : RunStart(c) /\ SinkIdle /\ PureIdle

\* The run part while the sink part is explored: a config, nothing run.
RunIdle ==
    RunStart([ex |-> "local", mode |-> "sync", provider |-> FALSE,
              sink |-> FALSE, timeout |-> FALSE, lines |-> 0, raises |-> {},
              terms |-> {"return", "raise"}, workdir |-> "none", chdirs |-> FALSE,
              envs |-> FALSE,
              reqs |-> <<>>, outs |-> <<>>])

NextRun ==
    \/ Begin \/ Stage \/ Spawn
    \/ ProcWriteOut \/ ProcWriteErr \/ ProcExit
    \/ Communicate \/ ScriptReturn \/ ReadOut \/ ReadErr \/ Wait
    \/ Upload \/ YieldResult \/ ConsumerNext \/ ConsumerClose
    \/ Finally \/ Replay \/ Finish

(***************************************************************************)
(* Specifications                                                          *)
(***************************************************************************)
\* CompositeLogSink(*sinks)
InitSink ==
    /\ sinks \in SeqsUpTo(Children, MaxSinks)
    /\ closed = FALSE
    /\ closeLog = <<>>
    /\ callNo = 0
    /\ lastCall = [op |-> "new", sinksBefore |-> <<>>, closedBefore |-> FALSE,
                   fail |-> {}, called |-> <<>>, delivered |-> <<>>,
                   raised |-> FALSE]

InitSinkRun == RunIdle /\ InitSink /\ PureIdle

NextSink == Emit \/ Close \/ AddSink \/ RemoveSink

SpecSink == InitSinkRun /\ [][NextSink]_vars

SpecRun == InitRun /\ [][NextRun]_vars

\* Runs of scripts that write more lines, with fewer declared files.
SpecStream == InitStream /\ [][NextRun]_vars

\* Runs of configs with a timeout: the timeout may elapse while the script runs.
NextTimed == NextRun \/ DeadlinePasses

SpecTimed == InitTimed /\ [][NextTimed]_vars

\* Runs whose script ends in every way, in the caller's process or not.
SpecHost == InitHost /\ [][NextRun]_vars

\* Runs with a sink whose emit may raise on the use case's events.
NextGuard == NextRun \/ Finalize

SpecGuard == InitGuard /\ [][NextGuard]_vars

(***************************************************************************)
(* Claims about CompositeLogSink (checked under SpecSink)                  *)
(***************************************************************************)
\* C1: an emit on a composite that is not closed calls every registered
\* child in registration order, delivers the event exactly once to every
\* registration whose emit does not raise (in registration order), whatever
\* subset of the children raises, and raises nothing to the caller.
C1_EmitReachesEveryHealthyChild ==
    (lastCall.op = "emit" /\ ~lastCall.closedBefore) =>
        /\ lastCall.called = lastCall.sinksBefore
        /\ lastCall.delivered = Keep(lastCall.sinksBefore, Children \ lastCall.fail)
        /\ ~lastCall.raised

\* The scenario of the spec: three sinks, the second fails, the first and
\* the third still get the event.
C1_Witness ==
    /\ lastCall.op = "emit"
    /\ ~lastCall.closedBefore
    /\ Len(lastCall.sinksBefore) = 3
    /\ lastCall.sinksBefore[2] \in lastCall.fail
    /\ lastCall.sinksBefore[1] \notin lastCall.fail
    /\ lastCall.sinksBefore[3] \notin lastCall.fail
    /\ lastCall.delivered = <<lastCall.sinksBefore[1], lastCall.sinksBefore[3]>>

\* C2: the first close calls close on every registered child exactly once,
\* in order, also past children whose close raises, and raises nothing; once
\* the composite is closed, no close and no emit calls any child or raises,
\* and no child is ever closed again.
C2_CloseOnceThenNoOps ==
    [][ /\ (~closed /\ closed') =>
              /\ closeLog' = sinks
              /\ lastCall'.called = sinks
              /\ ~lastCall'.raised
        /\ closed =>
              /\ closeLog' = closeLog
              /\ lastCall'.op \in {"emit", "close"} =>
                    (lastCall'.called = <<>> /\ ~lastCall'.raised)
        /\ (~closed /\ ~closed') => closeLog' = <<>> ]_vars

\* A second close on a composite whose first close closed at least two
\* children: it reaches none of them.
C2_Witness ==
    /\ lastCall.op = "close"
    /\ lastCall.closedBefore
    /\ Len(closeLog) >= 2
    /\ lastCall.fail # {}
    /\ lastCall.called = <<>>

(***************************************************************************)
(* The text of a stream: what run and run_streaming make of the characters *)
(* a script writes to stdout or to stderr                                  *)
(***************************************************************************)
\* The characters a script writes: a letter, a line feed, a carriage return.
Chars == {"a", "LF", "CR"}

Texts == SeqsUpTo(Chars, MaxText)

\* subprocess.Popen(text=True): the pipe is read with universal newlines,
\* CR LF and a lone CR arrive as LF.
RECURSIVE Universal(_)
Universal(t) ==
    IF t = <<>> THEN <<>>
    ELSE IF Head(t) = "CR"
         THEN <<"LF">> \o Universal(IF Len(t) >= 2 /\ t[2] = "LF"
                                    THEN SubSeq(t, 3, Len(t)) ELSE Tail(t))
         ELSE <<Head(t)>> \o Universal(Tail(t))

\* str.splitlines(): a line ends at LF, CR or CR LF, the line ends are
\* dropped, and no empty line follows a final line end.
RECURSIVE SplitFrom(_, _)
SplitFrom(t, cur) ==
    IF t = <<>> THEN (IF cur = <<>> THEN <<>> ELSE <<cur>>)
    ELSE IF Head(t) = "LF" THEN <<cur>> \o SplitFrom(Tail(t), <<>>)
    ELSE IF Head(t) = "CR"
         THEN <<cur>> \o SplitFrom(IF Len(t) >= 2 /\ t[2] = "LF"
                                   THEN SubSeq(t, 3, Len(t)) ELSE Tail(t), <<>>)
    ELSE SplitFrom(Tail(t), Append(cur, Head(t)))

SplitLines(t) == SplitFrom(t, <<>>)

\* async for line in process.stdout: StreamReader.readline() returns the
\* bytes up to and including the next LF, or what is left at end of file.
RECURSIVE ReadFrom(_, _)
ReadFrom(t, cur) ==
    IF t = <<>> THEN (IF cur = <<>> THEN <<>> ELSE <<cur>>)
    ELSE IF Head(t) = "LF" THEN <<Append(cur, "LF")>> \o ReadFrom(Tail(t), <<>>)
    ELSE ReadFrom(Tail(t), Append(cur, Head(t)))

ReadLines(t) == ReadFrom(t, <<>>)

\* line.rstrip("\n\r")
RECURSIVE RStrip(_)
RStrip(l) ==
    IF l # <<>> /\ l[Len(l)] \in {"LF", "CR"}
    THEN RStrip(SubSeq(l, 1, Len(l) - 1)) ELSE l

StripAll(ls) == [i \in 1..Len(ls) |-> RStrip(ls[i])]

\* "\n".join(lines)
RECURSIVE Join(_)
Join(ls) ==
    IF ls = <<>> THEN <<>>
    ELSE IF Len(ls) = 1 THEN ls[1]
    ELSE ls[1] \o <<"LF">> \o Join(Tail(ls))

\* The stdout / stderr field of the ExecutionResult that execute builds
\* from the characters t: LocalSubprocessExecutor joins the lines of the
\* text communicate() returned (stripped once more when a sink is given),
\* LambdaExecutor takes the value of the StringIO capture as it is.
ResultText(in) ==
    IF in.ex = "local"
    THEN Join(IF in.sink THEN StripAll(SplitLines(Universal(in.text)))
                         ELSE SplitLines(Universal(in.text)))
    ELSE in.text

\* The lines execute_async yields for the stream: LocalSubprocessExecutor
\* the lines read from the pipe, each stripped of its line end,
\* LambdaExecutor the splitlines() of the result's text.
StreamedLines(in) ==
    IF in.ex = "local"
    THEN StripAll(ReadLines(in.text))
    ELSE SplitLines(ResultText(in))

\* run: RunScriptUseCase.execute returns the executor's result.
RunCall ==
    /\ ~textRun.done
    /\ textRun' = Returned(ResultText(textIn))
    /\ UNCHANGED <<textIn, textStream>>
    /\ UNCHANGED <<sinkVars, runVars, provVars, callVars, sseVars>>

\* run_streaming consumed to its end: RunScriptUseCase.execute_async
\* forwards every line the executor yields.
RunStreamingCall ==
    /\ ~textStream.done
    /\ textStream' = Returned(StreamedLines(textIn))
    /\ UNCHANGED <<textIn, textRun>>
    /\ UNCHANGED <<sinkVars, runVars, provVars, callVars, sseVars>>

\* A deterministic script that writes the characters of one text to one
\* of its streams, run by either executor, with or without a sink.
InitText ==
    /\ textIn \in [ex : {"local", "lambda"}, stream : {"out", "err"},
                    sink : BOOLEAN, text : Texts]
    /\ textRun = NotCalled
    /\ textStream = NotCalled
    /\ ProvIdle
    /\ CallIdle
    /\ RunIdle
    /\ SinkIdle
    /\ SSEIdle

NextText == RunCall \/ RunStreamingCall

SpecText == InitText /\ [][NextText]_vars

(***************************************************************************)
(* CompositeFileProvider: routing of get / put calls, and cleanup          *)
(***************************************************************************)
\* The provider classes of the repository.
Kinds == {"S3FileProvider", "HTTPFileProvider", "LocalFileProvider"}

\* A path, as far as routing looks at it: its prefix.
Prefixes == {"s3://", "http://", "https://", "other"}

\* isinstance(provider, S3FileProvider) or "S3" in type(provider).__name__
IsS3(k) == k = "S3FileProvider"

\* isinstance(provider, HTTPFileProvider) or "HTTP" in type(provider).__name__
IsHTTP(k) == k = "HTTPFileProvider"

\* hasattr(provider, "get_file") and not hasattr(provider, "_bucket_name"):
\* every provider has get_file, only S3FileProvider has _bucket_name.
AssumedLocal(k) == k # "S3FileProvider"

\* for provider in self._providers: ... return provider. The first of the
\* positions hits, 0 if there is none.
First(hits) ==
    IF hits = {} THEN 0 ELSE CHOOSE i \in hits : \A j \in hits : i <= j

FirstS3(ps) == First({i \in 1..Len(ps) : IsS3(ps[i])})
FirstHTTP(ps) == First({i \in 1..Len(ps) : IsHTTP(ps[i])})
FirstAssumedLocal(ps) == First({i \in 1..Len(ps) : AssumedLocal(ps[i])})

\* CompositeFileProvider._select_provider: the three loops in turn, then
\* the default provider, then ValueError. The chosen provider's class, or
\* "ValueError".
SelectProvider(ps, dflt, path) ==
    IF path = "s3://" /\ FirstS3(ps) # 0
    THEN ps[FirstS3(ps)]
    ELSE IF path \in {"http://", "https://"} /\ FirstHTTP(ps) # 0
    THEN ps[FirstHTTP(ps)]
    ELSE IF FirstAssumedLocal(ps) # 0
    THEN ps[FirstAssumedLocal(ps)]
    ELSE IF dflt # "none" THEN dflt
    ELSE "ValueError"

\* get_file, get_file_async, put_file, put_file_async: select the provider
\* for the path and hand the call to it.
Route(op) ==
    /\ \E path \in Prefixes :
         LET k == SelectProvider(providers, defaultProvider, path)
         IN provCall' = [op |-> op, path |-> path, error |-> k = "ValueError",
                         invoked |-> IF k = "ValueError" THEN <<>> ELSE <<k>>]
    /\ UNCHANGED <<providers, defaultProvider, pathState, cleanLog>>
    /\ UNCHANGED <<sinkVars, runVars, textVars, callVars, sseVars>>

GetFile == Route("get_file")
GetFileAsync == Route("get_file_async")
PutFile == Route("put_file")
PutFileAsync == Route("put_file_async")

RouteOps == {"get_file", "get_file_async", "put_file", "put_file_async"}

\* CompositeFileProvider.add_provider
AddProvider ==
    /\ Len(providers) < MaxProviders
    /\ \E k \in Kinds :
         /\ providers' = Append(providers, k)
         /\ provCall' = [op |-> "add_provider", path |-> "none", error |-> FALSE,
                         invoked |-> <<>>]
    /\ UNCHANGED <<defaultProvider, pathState, cleanLog>>
    /\ UNCHANGED <<sinkVars, runVars, textVars, callVars, sseVars>>

\* The staged path on disk: a file, a directory or nothing; the file
\* system lets it be removed or refuses (the removal raises OSError).
PathStates == [kind : {"file", "dir", "absent"}, removable : BOOLEAN]

\* path.unlink() / os.remove(path) / shutil.rmtree(path) inside the try
\* block: the path is gone, or the error is swallowed and it stays.
Removed(f) == IF f.removable THEN [f EXCEPT !.kind = "absent"] ELSE f

\* What a cleanup call leaves: the path's state, and whether it raised.
Cleaned(f) == [f |-> f, raised |-> FALSE]

\* A cleanup that removes the path without looking whether it exists and
\* without a try block.
CleanupUnguarded(f) ==
    IF f.kind = "absent" THEN [f |-> f, raised |-> TRUE]
    ELSE [f |-> Removed(f), raised |-> ~f.removable]

\* LocalFileProvider.cleanup and S3FileProvider.cleanup: an existing file
\* or directory is removed; every error is swallowed.
CleanupFileOrDir(f) ==
    IF f.kind \in {"file", "dir"} THEN Cleaned(Removed(f)) ELSE Cleaned(f)

\* HTTPFileProvider.cleanup: an existing file is removed, a directory is
\* left; every error is swallowed.
CleanupFileOnly(f) ==
    IF f.kind = "file" THEN Cleaned(Removed(f)) ELSE Cleaned(f)

\* A FileProvider of the caller (the composite takes any implementation of
\* the interface) whose cleanup raises an Exception and leaves the path.
CleanupKinds == Kinds \cup {"FaultyProvider"}

ProviderCleanup(k, f) ==
    IF k = "FaultyProvider" THEN [f |-> f, raised |-> TRUE]
    ELSE IF IsHTTP(k) THEN CleanupFileOnly(f)
    ELSE CleanupFileOrDir(f)

\* A provider's cleanup called with no try block around it.
NotSwallowed(r) == r

\* try: provider.cleanup(path) / except Exception: pass
Swallowed(r) == [r EXCEPT !.raised = FALSE]

\* CompositeFileProvider.cleanup: cleanup of every registered provider in
\* turn, then of the default provider; what a provider raises is swallowed.
\* acc holds the path's state, the providers called so far, and whether an
\* exception is on its way out of the loop (which ends it).
RECURSIVE CleanupEach(_, _)
CleanupEach(ps, acc) ==
    IF ps = <<>> \/ acc.raised THEN acc
    ELSE LET r == Swallowed(ProviderCleanup(Head(ps), acc.f))
         IN CleanupEach(Tail(ps), [f |-> r.f, raised |-> r.raised,
                                   called |-> Append(acc.called, Head(ps))])

CompositeCleanup(ps, dflt, f) ==
    CleanupEach(IF dflt = "none" THEN ps ELSE Append(ps, dflt),
                [f |-> f, raised |-> FALSE, called |-> <<>>])

\* One cleanup call for the staged path, made on the provider named on;
\* called are the providers whose cleanup ran.
CleanupCall(on, res, called) ==
    /\ Len(cleanLog) < MaxCleanups
    /\ cleanLog' = Append(cleanLog, [on |-> on, before |-> pathState,
                                     after |-> res.f, raised |-> res.raised,
                                     called |-> called])
    /\ pathState' = res.f
    /\ UNCHANGED <<providers, defaultProvider, provCall>>
    /\ UNCHANGED <<sinkVars, runVars, textVars, callVars, sseVars>>

\* LocalFileProvider().cleanup(path)
LocalProviderCleanup ==
    CleanupCall("LocalFileProvider", CleanupFileOrDir(pathState),
                <<"LocalFileProvider">>)

\* CompositeFileProvider(...).cleanup(path)
CompositeProviderCleanup ==
    CleanupCall("CompositeFileProvider",
                CompositeCleanup(providers, defaultProvider, pathState),
                CompositeCleanup(providers, defaultProvider, pathState).called)

\* CompositeFileProvider(*providers, default_provider=...): any providers
\* of the given classes in any order, with or without a default.
Composites(kinds) ==
    /\ providers \in SeqsUpTo(kinds, MaxProviders)
    /\ defaultProvider \in kinds \cup {"none"}
    /\ provCall = NoProvCall
    /\ cleanLog = <<>>

InitRoute ==
    /\ Composites(Kinds)
    /\ pathState = [kind |-> "absent", removable |-> TRUE]
    /\ TextIdle
    /\ CallIdle
    /\ RunIdle
    /\ SinkIdle
    /\ SSEIdle

NextRoute == GetFile \/ GetFileAsync \/ PutFile \/ PutFileAsync \/ AddProvider

SpecRoute == InitRoute /\ [][NextRoute]_vars

InitCleanup ==
    /\ Composites(CleanupKinds)
    /\ pathState \in PathStates
    /\ TextIdle
    /\ CallIdle
    /\ RunIdle
    /\ SinkIdle
    /\ SSEIdle

NextCleanup == LocalProviderCleanup \/ CompositeProviderCleanup

SpecCleanup == InitCleanup /\ [][NextCleanup]_vars

(***************************************************************************)
(* The constructors of the domain's value objects                          *)
(***************************************************************************)
\* The strings a constructor is given: the empty string, a blank, a name.
Strings == {"", " ", "a"}

\* The constructor calls: ScriptConfig(script_path, working_directory,
\* timeout_seconds), FileRequirement(source, destination, required) and
\* FileOutput(source, destination, required). A field a class does not
\* have is "-".
Constructions ==
    [op : {"ScriptConfig"}, script_path : Strings,
     working_directory : Strings \cup {"None"}, timeout_seconds : {"None", "0", "5"},
     source : {"-"}, destination : {"-"}, required : {FALSE}]
    \cup
    [op : {"FileRequirement", "FileOutput"}, script_path : {"-"},
     working_directory : {"-"}, timeout_seconds : {"-"},
     source : Strings, destination : Strings, required : BOOLEAN]

\* A construction that ended by raising the exception exc.
Raised(exc) == [done |-> TRUE, v |-> [raised |-> exc]]

\* An object that was constructed.
Object(c) == [done |-> TRUE, v |-> [raised |-> "none", fields |-> c]]

\* __post_init__ of ScriptConfig, FileRequirement and FileOutput: the
\* exception the validation raises for the fields c, "none" if it passes.
PostInit(c) ==
    IF c.op = "ScriptConfig"
    THEN (IF c.script_path = "" THEN "ValueError" ELSE "none")
    ELSE (IF c.source = "" \/ c.destination = "" THEN "ValueError" ELSE "none")

\* The constructor is called: the dataclass sets the fields, then
\* __post_init__ validates them.
Construct ==
    /\ call.op \in {"ScriptConfig", "FileRequirement", "FileOutput"}
    /\ ~ret.done
    /\ ret' = IF PostInit(call) = "none" THEN Object(call) ELSE Raised(PostInit(call))
    /\ UNCHANGED call
    /\ UNCHANGED <<sinkVars, runVars, textVars, provVars, sseVars>>

InitConstruct ==
    /\ call \in Constructions
    /\ ret = NotCalled
    /\ TextIdle
    /\ ProvIdle
    /\ RunIdle
    /\ SinkIdle
    /\ SSEIdle

SpecConstruct == InitConstruct /\ [][Construct]_vars

(***************************************************************************)
(* The environment LocalSubprocessExecutor gives to the subprocess         *)
(***************************************************************************)
\* The names of environment variables, and their values; a name that is
\* not in an environment maps to "unset".
EnvKeys == {"K1", "K2", "K3"}
EnvValues == {"v", "w"}
Environments == [EnvKeys -> EnvValues \cup {"unset"}]

\* config.environment_variables is None or empty.
NoOverrides(over) == \A k \in EnvKeys : over[k] = "unset"

\* A merge in which the parent's value wins over the config's.
UpdateParentWins(env, over) ==
    [k \in EnvKeys |-> IF env[k] # "unset" THEN env[k] ELSE over[k]]

\* env.update(config.environment_variables)
Update(env, over) ==
    [k \in EnvKeys |-> IF over[k] # "unset" THEN over[k] ELSE env[k]]

\* LocalSubprocessExecutor._build_environment: None without overrides,
\* else a copy of os.environ updated with the overrides. os.environ itself
\* is not written.
BuildEnvironment(parent, over) ==
    [env |-> IF NoOverrides(over) THEN "None" ELSE Update(parent, over),
     parent |-> parent]

\* subprocess.Popen(env=env) / asyncio.create_subprocess_exec(env=env):
\* with env None the subprocess inherits the parent's environment.
ChildEnvironment(parent, over) ==
    LET b == BuildEnvironment(parent, over)
    IN [child |-> IF NoOverrides(over) THEN b.parent ELSE b.env,
        parent |-> b.parent]

\* execute / execute_async up to the start of the subprocess.
StartSubprocess ==
    /\ call.op = "_build_environment"
    /\ ~ret.done
    /\ ret' = Returned(ChildEnvironment(call.parent, call.overrides))
    /\ UNCHANGED call
    /\ UNCHANGED <<sinkVars, runVars, textVars, provVars, sseVars>>

InitEnv ==
    /\ call \in [op : {"_build_environment"}, parent : Environments,
                  overrides : Environments]
    /\ ret = NotCalled
    /\ TextIdle
    /\ ProvIdle
    /\ RunIdle
    /\ SinkIdle
    /\ SSEIdle

SpecEnv == InitEnv /\ [][StartSubprocess]_vars

(***************************************************************************)
(* RunScriptUseCase.execute: the result handed back to the caller          *)
(***************************************************************************)
\* The results a delegate executor may return: exit code -1 stands for
\* None, duration 0 for a duration that was not measured.
DelegateResults ==
    [status : {"success", "failed", "timeout", "cancelled"},
     exit_code : {0, 1, -1}, stdout : {"", "out"}, stderr : {"", "err"},
     duration_seconds : {0, 3}, metadata : {"None", "meta"}]

\* The wall-clock time the use case measures around the delegate's call.
Measured == {0, 2}

\* A normalisation that always substitutes the measured duration.
WithMeasuredDuration(res, duration) ==
    [res EXCEPT !.duration_seconds = duration]

\* if result.duration_seconds == 0.0: result = ExecutionResult(... with
\* duration_seconds=duration ...)
Normalized(res, duration) ==
    IF res.duration_seconds = 0
    THEN [status |-> res.status, exit_code |-> res.exit_code,
          stdout |-> res.stdout, stderr |-> res.stderr,
          duration_seconds |-> duration, metadata |-> res.metadata]
    ELSE res

\* RunScriptUseCase.execute with a delegate that returns call.result.
UseCaseExecute ==
    /\ call.op = "RunScriptUseCase.execute"
    /\ ~ret.done
    /\ ret' = Returned(Normalized(call.result, call.duration))
    /\ UNCHANGED call
    /\ UNCHANGED <<sinkVars, runVars, textVars, provVars, sseVars>>

InitUseCase ==
    /\ call \in [op : {"RunScriptUseCase.execute"}, result : DelegateResults,
                  duration : Measured]
    /\ ret = NotCalled
    /\ TextIdle
    /\ ProvIdle
    /\ RunIdle
    /\ SinkIdle
    /\ SSEIdle

SpecUseCase == InitUseCase /\ [][UseCaseExecute]_vars

(***************************************************************************)
(* SSELogSink: emit and close                                              *)
(***************************************************************************)
\* LogLevel values, messages and metadata an emit call is given: no
\* metadata, an empty dict, a dict with an entry.
SSELevels == {"INFO", "ERROR"}
SSEMessages == {"a"}
SSEMetadata == {"None", "empty", "given"}

\* What the send callback does when it is called: it returns, or it raises
\* an Exception (e.g. the connection is closed).
Callbacks == {"returns", "raises"}

\* try: self._send_callback(sse_message) / except Exception: pass: what
\* leaves the try statement when the callback behaved as cb.
Passed(cb) == cb \notin {"returns", "raises"}

\* event_data as JSON in the SSE frame "data: <json>\n\n": level.value and
\* message, and metadata only if it is given and not empty.
SSEMessage(level, message, metadata) ==
    [level |-> level, message |-> message,
     metadata |-> IF metadata = "given" THEN "given" ELSE "absent"]

\* An emit that does not look at self._closed.
SendAlways(isClosed, msg, cb) == [sent |-> <<msg>>, raised |-> Passed(cb)]

\* SSELogSink.emit: nothing when closed; otherwise the callback is called
\* with the message inside try/except Exception: pass.
Send(isClosed, msg, cb) ==
    IF isClosed THEN [sent |-> <<>>, raised |-> FALSE]
    ELSE [sent |-> <<msg>>, raised |-> Passed(cb)]

\* sink.emit(level, message, metadata), with a callback that behaves as cb
SSEEmit ==
    /\ Len(sseLog) < MaxSSECalls
    /\ \E level \in SSELevels, message \in SSEMessages,
          metadata \in SSEMetadata, cb \in Callbacks :
         LET r == Send(sseClosed, SSEMessage(level, message, metadata), cb)
         IN sseLog' = Append(sseLog,
                [op |-> "emit", level |-> level, message |-> message,
                 metadata |-> metadata, callback |-> cb,
                 sent |-> r.sent, raised |-> r.raised])
    /\ UNCHANGED sseClosed
    /\ UNCHANGED <<sinkVars, runVars, textVars, provVars, callVars>>

\* sink.close()
SSEClose ==
    /\ Len(sseLog) < MaxSSECalls
    /\ sseClosed' = TRUE
    /\ sseLog' = Append(sseLog,
            [op |-> "close", level |-> "-", message |-> "-", metadata |-> "-",
             callback |-> "-", sent |-> <<>>, raised |-> FALSE])
    /\ UNCHANGED <<sinkVars, runVars, textVars, provVars, callVars>>

InitSSE ==
    /\ SSEIdle
    /\ TextIdle
    /\ ProvIdle
    /\ CallIdle
    /\ RunIdle
    /\ SinkIdle

NextSSE == SSEEmit \/ SSEClose

SpecSSE == InitSSE /\ [][NextSSE]_vars

(***************************************************************************)
(* Claims about a run (checked under SpecRun, SpecStream or SpecTimed)     *)
(***************************************************************************)
Idx == 1..Len(trace)

\* The events of the trace with tag t, in order.
Events(t) == SelectSeq(trace, LAMBDA e : e.t = t)

Happened(t) == \E i \in Idx : trace[i].t = t

\* The first requirement whose fetch aborts the staging: a required one whose
\* source is missing or whose transfer fails. 0: none.
FirstAbort ==
    LET bad == {i \in 1..Len(cfg.reqs) : cfg.reqs[i].required /\ cfg.reqs[i].src # "ok"}
    IN IF bad = {} THEN 0 ELSE CHOOSE i \in bad : \A k \in bad : i <= k

\* C3: when the run has ended, every path a fetch returned has been passed
\* to the provider's cleanup exactly once (stated for the runs in which no
\* cleanup call raised).
C3_EveryStagedPathCleanedOnce ==
    (pc = "done" /\ \A k \in Idx : ~(trace[k].t = "cleanup" /\ trace[k].b = "raise")) =>
        \A i \in 1..Len(cfg.reqs) :
            (\E k \in Idx : trace[k].t = "fetch" /\ trace[k].a = i /\ trace[k].b = "ok") =>
                Cardinality({k \in Idx : trace[k].t = "cleanup" /\ trace[k].a = i}) = 1

\* C4: a run of an executor with a file provider whose first aborting
\* requirement is a required one with a missing source ends with a staging
\* failure naming that source, and its script was never started.
C4_MissingRequiredInputAborts ==
    (pc = "done" /\ cfg.provider /\ FirstAbort # 0
        /\ cfg.reqs[FirstAbort].src = "notfound") =>
        /\ exOutcome.kind = "raised"
        /\ exOutcome.exc.type = "SEE"
        /\ exOutcome.exc.phase = "staging"
        /\ exOutcome.exc.src = FirstAbort
        /\ ~Happened("start")

\* C5: a run of an executor with a file provider and a non-empty list of
\* requirements fetches each requirement once, in declared order, up to the
\* first aborting one.
C5_FetchesInDeclaredOrder ==
    (pc = "done" /\ cfg.provider /\ cfg.reqs # <<>>) =>
        LET n == IF FirstAbort = 0 THEN Len(cfg.reqs) ELSE FirstAbort
            f == Events("fetch")
        IN /\ Len(f) = n
           /\ \A i \in 1..n : f[i].a = i

\* C6: no fetch happens once the script has been started, and no upload (the
\* check of the local file, the put) happens before the script has exited
\* and the executor holds its exit status.
C6_StagingBeforeRunningBeforeUploading ==
    \A i \in Idx :
        /\ trace[i].t = "fetch" => \A j \in 1..i : trace[j].t # "start"
        /\ trace[i].t \in {"exists", "put"} =>
              /\ \E j \in 1..i : trace[j].t = "exit"
              /\ result.status # "none"

\* A run of the subprocess executor's execute_async that staged a file, ran
\* the script and uploaded an output.
C6_Witness ==
    /\ pc = "done"
    /\ IsLocal /\ IsAsync
    /\ \E i \in Idx : trace[i].t = "fetch" /\ trace[i].b = "ok"
    /\ \E i \in Idx : trace[i].t = "put" /\ trace[i].b = "uploaded"
    /\ Happened("exit")

\* The items with tag t ("dyield": of the executor, "yield": of the use
\* case) hold exactly one ExecutionResult, in the last place.
OneResultLast(t) ==
    LET ys == Events(t)
    IN /\ Len(ys) >= 1
       /\ ys[Len(ys)].a = "result"
       /\ \A k \in 1..(Len(ys) - 1) : ys[k].a # "result"

\* C7: a sequence of execute_async (of the executor, and of the use case
\* around it) that ended without raising holds exactly one ExecutionResult,
\* as its last item.
C7_ExactlyOneResultLast ==
    (pc = "done" /\ outcome.kind = "exhausted") =>
        (OneResultLast("dyield") /\ OneResultLast("yield"))

\* A fully consumed sequence of two lines and the result.
C7_Witness ==
    /\ pc = "done"
    /\ outcome.kind = "exhausted"
    /\ Len(Events("yield")) = 3
    /\ Len(Events("dyield")) = 3

\* The steps of the subprocess executor's generator while the script runs.
ReadStep == ReadOut \/ ReadErr \/ Wait

\* C8: while the subprocess executor's generator reads the streams of the
\* script and awaits its exit, the script or the generator can always take a
\* step: the run does not deadlock.
C8_NoDeadlock ==
    (IsLocal /\ IsAsync /\ pc \in {"read_out", "read_err", "wait"}) =>
        ENABLED (ProcStep \/ ReadStep)

\* C9: a run whose timeout elapsed while the script was running, and that
\* ended with a result, ends with status Timeout and no exit code.
C9_TimeoutEnforced ==
    (pc = "done" /\ deadline /\ exOutcome.kind \in {"returned", "exhausted"}) =>
        /\ exOutcome.result.status = "timeout"
        /\ exOutcome.result.exit_code = NoResult.exit_code

\* C10: once the consumer has closed the subprocess executor's sequence
\* early, the script has exited or can still take a step towards its exit:
\* it is not left blocked forever.
C10_ClosedStreamEndsScript ==
    (pc = "done" /\ IsLocal /\ exOutcome.kind = "closed") =>
        (~Alive \/ ENABLED ProcStep)

\* The run ended by itself: the consumer did not close the sequence and no
\* cleanup call raised.
CleanEnd ==
    /\ exOutcome.kind # "closed"
    /\ \A k \in Idx : ~(trace[k].t = "cleanup" /\ trace[k].b = "raise")

\* In the events tr: output j was found missing, or its put failed.
OutFailed(tr, j) ==
    \E k \in 1..Len(tr) :
        \/ tr[k].t = "exists" /\ tr[k].a = j /\ tr[k].b = FALSE
        \/ tr[k].t = "put" /\ tr[k].a = j /\ tr[k].b = "error"

\* The number of events of level WARNING about file i, of the kinds in ks.
Warnings(ks, i) ==
    Cardinality({k \in Idx : /\ trace[k].t = "emit"
                             /\ trace[k].a = "WARNING"
                             /\ trace[k].b[1] \in ks
                             /\ trace[k].b[2] = i})

OutputWarnings(j) == Warnings({"optional_output_missing", "optional_upload_failed"}, j)

\* C11: a run whose upload met a failure ends, when the failed output is
\* required, with a raised failure of the upload (not of the execution), and
\* otherwise with its result, whose status is the one of the script's exit
\* code, and with one Warning event per failed optional output.
C11_UploadFailureKeepsStatus ==
    (pc = "done" /\ CleanEnd /\ \E j \in 1..Len(cfg.outs) : OutFailed(trace, j)) =>
        IF \E j \in 1..Len(cfg.outs) : cfg.outs[j].required /\ OutFailed(trace, j)
        THEN /\ exOutcome.kind = "raised"
             /\ exOutcome.exc.type = "SEE"
             /\ exOutcome.exc.phase = "upload"
        ELSE /\ exOutcome.kind \in {"returned", "exhausted"}
             /\ exOutcome.result.status = Status(exitCode)
             /\ cfg.sink => \A j \in 1..Len(cfg.outs) :
                               OutFailed(trace, j) => OutputWarnings(j) = 1

\* C12: a run with a sink whose config declares one output, optional, whose
\* local file was never created, ends with its result, whose status is the
\* one of the script's exit code, and the sink got exactly one Warning event
\* naming the missing output.
C12_OptionalMissingOutputWarnsOnce ==
    (/\ pc = "done" /\ CleanEnd
     /\ cfg.sink /\ cfg.provider
     /\ Len(cfg.outs) = 1 /\ ~cfg.outs[1].required
     /\ \E k \in Idx : trace[k].t = "exists" /\ trace[k].a = 1 /\ trace[k].b = FALSE) =>
        /\ outcome.kind \in {"returned", "exhausted"}
        /\ outcome.result.status = Status(exitCode)
        /\ Warnings({"optional_output_missing"}, 1) = 1

\* What the upload step left in the events tr and the exception in flight
\* exc: the outputs were checked in declared order, up to the first required
\* output that failed (all of them when there is none); each output whose
\* local file exists was put once, right after its check; and the step
\* raised iff a required output failed.
UploadOrderly(tr, exc) ==
    LET e == SelectSeq(tr, LAMBDA x : x.t = "exists")
        p == SelectSeq(tr, LAMBDA x : x.t = "put")
        bad == {j \in 1..Len(cfg.outs) : cfg.outs[j].required /\ OutFailed(tr, j)}
        n == IF bad = {} THEN Len(cfg.outs) ELSE CHOOSE j \in bad : \A k \in bad : j <= k
        present == SelectSeq(e, LAMBDA x : x.b = TRUE)
    IN /\ Len(e) = n
       /\ \A j \in 1..n : e[j].a = j
       /\ Len(p) = Len(present)
       /\ \A k \in 1..Len(p) : p[k].a = present[k].a
       /\ \A k \in 1..Len(tr) :
             (tr[k].t = "exists" /\ tr[k].b = TRUE) =>
                 (k < Len(tr) /\ tr[k + 1].t = "put" /\ tr[k + 1].a = tr[k].a)
       /\ (exc.phase = "upload") = (bad # {})
       /\ (bad # {}) => exc.src = n

\* C13: the upload step checks the outputs in declared order and goes on
\* past every optional output that is missing or whose put fails; only the
\* failure of a required output ends it, by raising.
C13_UploadContinuesPastOptional ==
    [][(pc = "upload" /\ pc' # "upload" /\ cfg.provider /\ cfg.outs # <<>>) =>
           UploadOrderly(trace', pending')]_vars

\* Two outputs: the first optional and never created, the second uploaded.
C13_Witness ==
    /\ Len(cfg.outs) = 2
    /\ ~cfg.outs[1].required
    /\ \E k \in Idx : trace[k].t = "exists" /\ trace[k].a = 1 /\ trace[k].b = FALSE
    /\ \E k \in Idx : trace[k].t = "put" /\ trace[k].a = 2 /\ trace[k].b = "uploaded"

\* The requirements whose fetch returns a path, in declared order.
Fetched(rs) ==
    SelectSeq([i \in 1..Len(rs) |-> i], LAMBDA i : rs[i].src = "ok")

\* C14: in a run with a file provider and a sink whose staging does not
\* abort, every optional requirement whose source is missing gives one
\* Warning event naming it, and the staged list is exactly the requirements
\* whose fetch succeeded, in declared order.
C14_OptionalMissingInputWarns ==
    (pc = "done" /\ cfg.provider /\ cfg.sink /\ cfg.reqs # <<>> /\ FirstAbort = 0) =>
        /\ staged = Fetched(cfg.reqs)
        /\ \A i \in 1..Len(cfg.reqs) :
              cfg.reqs[i].src = "notfound" => Warnings({"optional_input_missing"}, i) = 1

\* C15: in a run with a sink, a fetch that fails for another reason than a
\* missing source aborts the run before the script starts when the
\* requirement is required, and otherwise gives a Warning event naming the
\* requirement.
C15_OptionalTransferFailureWarns ==
    (pc = "done" /\ cfg.sink) =>
        \A k \in Idx :
            (trace[k].t = "fetch" /\ trace[k].b = "error") =>
                IF cfg.reqs[trace[k].a].required
                THEN ~Happened("start")
                ELSE \E w \in Idx : /\ trace[w].t = "emit"
                                    /\ trace[w].a = "WARNING"
                                    /\ trace[w].b[2] = trace[k].a

\* C16: when a cleanup call raised, the executor's call still ends as the
\* run had ended: with the result it built, or with the error it raised,
\* never with the error of the cleanup.
C16_CleanupFailureSwallowed ==
    (pc = "done" /\ \E k \in Idx : trace[k].t = "cleanup" /\ trace[k].b = "raise") =>
        /\ exOutcome.exc.phase # "cleanup"
        /\ (result.status # "none" /\ ~Happened("put") /\ ~Happened("exists")) =>
               exOutcome.kind \in {"returned", "exhausted", "closed"}

\* C17: a call of RunScriptUseCase.execute or execute_async, with any
\* executor and any sink (a sink whose emit raises on the starting, the
\* completion or the error event included), ends with a result, or by
\* raising a ScriptExecutionException: no other error reaches the caller.
C17_OnlyExecutionFailuresEscape ==
    pc = "done" =>
        \/ outcome.kind \in {"returned", "exhausted", "closed"}
        \/ outcome.kind = "raised" /\ outcome.exc.type = "SEE"

\* The closing events the sink got from the use case: the completion event
\* and the error events.
ClosingEvents ==
    SelectSeq(trace, LAMBDA e : /\ e.t = "emit"
                                /\ e.b[1] \in {"completed", "failed", "unexpected"})

\* C18: in a run with a sink that the consumer did not close early, the
\* first thing that happens is the Info event of the start, and the run
\* gives exactly one closing event: the Info event with the exit code when
\* the delegate ended normally, the Error event when it raised.
C18_OneStartOneClosingEvent ==
    (pc = "done" /\ cfg.sink /\ exOutcome.kind # "closed") =>
        /\ trace # <<>>
        /\ trace[1] = Ev("emit", "INFO", <<"starting", 0>>)
        /\ Len(ClosingEvents) = 1
        /\ (ClosingEvents[1].a = "INFO") = (exOutcome.kind \in {"returned", "exhausted"})
        /\ (ClosingEvents[1].a = "ERROR") = (exOutcome.kind = "raised")

\* ExecutionResult.is_success
IsSuccess(res) == res.status = "success"

C20_HostStateRestored ==
    (pc = "done" /\ IsLambda) =>
        /\ host.out = HostOrig.out
        /\ host.err = HostOrig.err
        /\ host.cwd = HostOrig.cwd

\* C21: when a call of the in-process executor has ended, by a return or
\* by an exception, the environment variables of the caller's process are
\* the ones the call found: no override of the config is left in place.
C21_EnvironmentRestored ==
    (pc = "done" /\ IsLambda) => host.env = HostOrig.env

\* C22: in the in-process executor a script that ends by a termination
\* request gets status Success when the request's exit code is 0 and
\* Failed when it is nonzero (a request carrying a message has exit code
\* 1); a script that ends by another error gets status Failed and the
\* error's traceback in the captured stderr; and in none of these cases is
\* an error raised to the caller in place of the result.
C22_ScriptTerminationMapsToStatus ==
    LET denoted == [t \in Terminations |->
                      IF t \in {"return", "exit0"} THEN 0 ELSE 1]
    IN \A k \in Idx :
         (IsLambda /\ trace[k].t = "exit" /\ pc # "in_script") =>
            /\ result.status = Status(denoted[trace[k].b])
            /\ trace[k].b = "raise" =>
                   (result.status = "failed" /\ InSeq(Traceback, result.stderr))
            /\ pending.phase \in {"none", "upload", "cleanup", "closed"}

\* C23: a run of the subprocess executor whose interpreter binary is
\* missing ends with an ExecutorNotFound error, an error of another kind
\* than the generic execution failure; and a run ends with that error only
\* when the interpreter is missing, never for a missing working directory
\* or a missing input file.
C23_MissingInterpreterIsExecutorNotFound ==
    (pc = "done" /\ IsLocal) =>
        /\ (\E k \in Idx : trace[k].t = "spawn_failed" /\ trace[k].a = "interpreter") =>
              /\ exOutcome.kind = "raised"
              /\ exOutcome.exc.type = "ExecutorNotFound"
        /\ (exOutcome.kind = "raised" /\ exOutcome.exc.type = "ExecutorNotFound") =>
              \E k \in Idx : trace[k].t = "spawn_failed" /\ trace[k].a = "interpreter"

\* C24: for a deterministic script, the lines run_streaming yields for a
\* stream, joined by line feeds, are the text the ExecutionResult of run
\* has for that stream, for the subprocess executor and for the
\* in-process executor.
C24_StreamedLinesJoinToRunText ==
    (textRun.done /\ textStream.done) => Join(textStream.v) = textRun.v

\* The steps of a generator that yield a line to the consumer.
LineStep == ReadOut \/ ReadErr \/ Replay

\* C25: in run_streaming the consumer can observe a line before the run
\* has finished: while the script is running and a line it wrote to stdout
\* waits to be read, the consumer holds a yielded line or the generator can
\* yield one; the lines are not kept back until the script has ended. For
\* the subprocess executor and for the in-process executor.
C25_LinesObservableBeforeFinish ==
    (/\ IsAsync
     /\ proc = "running"
     /\ outBuf # <<>>
     /\ pending = NoExc) =>
        (pc = "at_yield" \/ ENABLED LineStep)

\* The lines the sink received at the given level, in the order of receipt.
SinkLines(level) ==
    LET got == SelectSeq(trace, LAMBDA e :
                   e.t = "emit" /\ e.a = level /\ e.b[1] = "line")
    IN [i \in 1..Len(got) |-> got[i].b[2]]

\* C26: once a run with a sink has built its ExecutionResult, the sink has
\* received the captured stdout lines as Info events in the order stdout
\* produced them and the captured stderr lines as Error events in the
\* order stderr produced them, each line exactly once, and every one of
\* these events precedes the return or the yield of the result.
C26_SinkGetsLinesInStreamOrder ==
    (cfg.sink /\ result.status # "none") =>
        /\ SinkLines("INFO") = result.stdout
        /\ SinkLines("ERROR") = result.stderr
        /\ \A j, k \in Idx :
              (/\ trace[j].t = "emit" /\ trace[j].b[1] = "line"
               /\ trace[k].t = "dyield" /\ trace[k].a = "result") => j < k

\* A finished run with a sink whose script wrote two lines to stdout and
\* one to stderr in between: the sink has them, and the result was given.
C26_Witness ==
    /\ pc = "done"
    /\ cfg.sink
    /\ exOutcome.kind \in {"returned", "exhausted"}
    /\ result.stdout = <<1, 3>>
    /\ result.stderr = <<2>>
    /\ SinkLines("INFO") = <<1, 3>>
    /\ SinkLines("ERROR") = <<2>>

\* C27: a call of add_sink or remove_sink on a CompositeLogSink that has
\* been closed leaves its list of children as it was.
C27_NoChildChangeAfterClose ==
    (lastCall.op \in {"add_sink", "remove_sink"} /\ lastCall.closedBefore) =>
        sinks = lastCall.sinksBefore

\* The provider class a path's prefix calls for.
KindFor(path) ==
    CASE path = "s3://" -> "S3FileProvider"
      [] path \in {"http://", "https://"} -> "HTTPFileProvider"
      [] OTHER -> "LocalFileProvider"

\* C28: a get or put call of CompositeFileProvider goes to the provider
\* the path's prefix calls for (s3:// object storage, http:// and https://
\* HTTP, anything else local) whenever one is registered, in whatever
\* order the providers were registered; and with no default provider
\* configured a call never goes to a provider of another kind.
C28_RoutedByPrefixOnly ==
    (provCall.op \in RouteOps) =>
        /\ InSeq(KindFor(provCall.path), providers) =>
               provCall.invoked = <<KindFor(provCall.path)>>
        /\ (defaultProvider = "none" /\ ~provCall.error) =>
               provCall.invoked = <<KindFor(provCall.path)>>

\* C29: a get or put call of CompositeFileProvider for a path whose
\* prefix no registered provider matches, with no default provider
\* configured, fails with the no-suitable-provider error and invokes no
\* provider.
C29_NoMatchNoDefaultIsError ==
    (/\ provCall.op \in RouteOps
     /\ ~InSeq(KindFor(provCall.path), providers)
     /\ defaultProvider = "none") =>
        (provCall.error /\ provCall.invoked = <<>>)

\* C30: of two consecutive cleanup calls for the same staged path on the
\* same provider, a LocalFileProvider or a CompositeFileProvider, the
\* second raises nothing and leaves the path as it found it; and no
\* cleanup call raises.
C30_SecondCleanupIsNoOp ==
    /\ \A i \in 1..Len(cleanLog) : ~cleanLog[i].raised
    /\ \A i \in 1..(Len(cleanLog) - 1) :
          cleanLog[i].on = cleanLog[i + 1].on =>
              cleanLog[i + 1].after = cleanLog[i + 1].before

\* Two cleanup calls on one provider for a staged file or directory: the
\* first removed it, the second found nothing and left nothing.
C30_Witness ==
    /\ Len(cleanLog) = 2
    /\ cleanLog[1].on = cleanLog[2].on
    /\ cleanLog[1].before.kind \in {"file", "dir"}
    /\ cleanLog[1].after.kind = "absent"
    /\ cleanLog[2].before.kind = "absent"
    /\ cleanLog[2].after.kind = "absent"

\* C31: constructing a ScriptConfig with an empty script location fails
\* with InvalidScriptException, and no object exists whose script location
\* is empty; no FileRequirement or FileOutput exists with an empty source
\* or an empty destination.
C31_EmptyScriptLocationIsInvalidScript ==
    ret.done =>
        /\ (call.op = "ScriptConfig" /\ call.script_path = "") =>
               ret.v.raised = "InvalidScriptException"
        /\ ret.v.raised = "none" =>
               /\ call.op = "ScriptConfig" => ret.v.fields.script_path # ""
               /\ call.op \in {"FileRequirement", "FileOutput"} =>
                      (ret.v.fields.source # "" /\ ret.v.fields.destination # "")

\* C32: a call of execute or execute_async of an executor ends by
\* returning or yielding the ExecutionResult or by raising
\* ScriptExecutionException, never by raising another exception; and
\* LocalSubprocessExecutor.execute with a file provider, once the script
\* has exited and the result is built and no upload failed, returns that
\* result.
C32_OnlyResultOrExecutionException ==
    (pc = "done" /\ exOutcome.kind # "none") =>
        /\ exOutcome.kind = "raised" => exOutcome.exc.type = "SEE"
        /\ (/\ IsLocal /\ ~IsAsync /\ cfg.provider
            /\ result.status # "none"
            /\ \A k \in Idx : ~(trace[k].t = "put" /\ trace[k].b = "error")
            /\ \A k \in Idx : ~(trace[k].t = "exists" /\ trace[k].b = FALSE)) =>
               (exOutcome.kind = "returned" /\ exOutcome.result = result)

\* C33: the environment the subprocess is started with has the config's
\* value for every name the overrides set and the parent's value (or none)
\* for every other name; the parent's own environment is as before.
C33_EnvironmentIsParentPlusOverrides ==
    ret.done =>
        /\ \A k \in EnvKeys :
              ret.v.child[k] = IF call.overrides[k] # "unset"
                               THEN call.overrides[k] ELSE call.parent[k]
        /\ ret.v.parent = call.parent

\* A subprocess started with an override that replaces a value of the
\* parent, an override that adds a name, and an inherited name.
C33_Witness ==
    /\ ret.done
    /\ call.parent = [k \in EnvKeys |-> IF k = "K3" THEN "unset" ELSE "v"]
    /\ call.overrides = [k \in EnvKeys |-> IF k = "K1" THEN "unset" ELSE "w"]
    /\ ret.v.child = [k \in EnvKeys |-> IF k = "K1" THEN "v" ELSE "w"]

\* C34: the result RunScriptUseCase.execute returns has the status, exit
\* code, stdout, stderr and metadata of the delegate's result; its
\* duration is the delegate's too, unless the delegate's is 0, and then it
\* is the duration the use case measured.
C34_ResultIsDelegatesButDuration ==
    ret.done =>
        /\ ret.v.status = call.result.status
        /\ ret.v.exit_code = call.result.exit_code
        /\ ret.v.stdout = call.result.stdout
        /\ ret.v.stderr = call.result.stderr
        /\ ret.v.metadata = call.result.metadata
        /\ ret.v.duration_seconds =
              IF call.result.duration_seconds = 0 THEN call.duration
              ELSE call.result.duration_seconds

\* A delegate's result with a measured duration came back as it was, the
\* use case's own measurement being another.
C34_Witness ==
    /\ ret.done
    /\ call.result.duration_seconds = 3
    /\ call.duration = 2
    /\ call.result.status = "failed"
    /\ call.result.metadata = "meta"
    /\ ret.v = call.result

\* C35: RunScriptUseCase.execute_async forwards the items of the
\* delegate's sequence, lines and result, unchanged and in the delegate's
\* order; and with a sink, the completion Info event is emitted after the
\* last line was forwarded and just before the result is yielded to the
\* consumer.
C35_ForwardsInOrderCompletionBeforeResult ==
    IsAsync =>
        /\ Len(Events("yield")) = Len(Events("dyield"))
        /\ \A i \in 1..Len(Events("yield")) :
              /\ Events("yield")[i].a = Events("dyield")[i].a
              /\ Events("yield")[i].b = Events("dyield")[i].b
        /\ \A k \in Idx :
              (cfg.sink /\ trace[k].t = "yield" /\ trace[k].a = "result") =>
                 /\ k > 1
                 /\ trace[k - 1].t = "emit"
                 /\ trace[k - 1].a = "INFO"
                 /\ trace[k - 1].b[1] = "completed"
                 /\ \A j \in Idx :
                       (trace[j].t = "yield" /\ trace[j].a # "result") => j < k - 1

\* A streaming run with a sink consumed to its end: three lines and then
\* the result were forwarded.
C35_Witness ==
    /\ pc = "done"
    /\ IsAsync
    /\ cfg.sink
    /\ outcome.kind = "exhausted"
    /\ Len(Events("yield")) = 4
    /\ Events("yield")[4].a = "result"
    /\ \E k \in Idx : trace[k].t = "emit" /\ trace[k].b[1] = "completed"

\* C36: the upload does not look at the script's outcome: in a run with a
\* file provider and declared outputs whose result has been built, with
\* status Failed as with status Success, the upload step checks the
\* outputs from the first one on, in declared order, and puts each one
\* that exists, up to the first required output that fails.
C36_UploadWhateverTheStatus ==
    [][(/\ pc = "upload"
        /\ cfg.provider
        /\ cfg.outs # <<>>
        /\ result.status \in {"success", "failed"}) =>
           /\ pc' # "upload"
           /\ \E k \in (Len(trace) + 1)..Len(trace') :
                 trace'[k].t = "exists" /\ trace'[k].a = 1
           /\ UploadOrderly(trace', pending')]_vars

\* A run whose script ended with exit code 1 (status Failed) and whose
\* two outputs were both uploaded.
C36_Witness ==
    /\ result.status = "failed"
    /\ result.exit_code = 1
    /\ Len(cfg.outs) = 2
    /\ \A j \in 1..2 :
          \E k \in Idx : trace[k].t = "put" /\ trace[k].a = j /\ trace[k].b = "uploaded"

\* Event x is a line of the stream ("out", "err") yielded by a generator.
IsYieldedLine(x, stream) == x.t \in {"dyield", "yield"} /\ x.a = stream

\* Event x is a line emitted to the sink at the level (INFO for stdout,
\* ERROR for stderr).
IsEmittedLine(x, level) == x.t = "emit" /\ x.a = level /\ x.b[1] = "line"

\* C37: in execute_async of the subprocess executor and of the in-process
\* executor every stdout line comes before every stderr line, in the
\* yielded sequence and at the sink; and when a stderr line has been
\* yielded or emitted, stdout is at end of file and has been read to its
\* end.
C37_StdoutLinesBeforeStderrLines ==
    IsAsync =>
        /\ \A i, j \in Idx :
              (i < j /\ IsYieldedLine(trace[i], "err")) =>
                  ~IsYieldedLine(trace[j], "out")
        /\ \A i, j \in Idx :
              (i < j /\ IsEmittedLine(trace[i], "ERROR")) =>
                  ~IsEmittedLine(trace[j], "INFO")
        /\ (\E i \in Idx : \/ IsYieldedLine(trace[i], "err")
                            \/ IsEmittedLine(trace[i], "ERROR")) =>
              (proc = "exited" /\ outBuf = <<>>)

\* A streaming run of the subprocess executor with a sink that yielded
\* two stdout lines and a stderr line and then the result.
C37_Witness ==
    /\ pc = "done"
    /\ IsAsync
    /\ IsLocal
    /\ cfg.sink
    /\ Len(SelectSeq(Events("yield"), LAMBDA x : x.a = "out")) = 2
    /\ Len(SelectSeq(Events("yield"), LAMBDA x : x.a = "err")) = 1
    /\ Len(Events("yield")) = 4
    /\ Events("yield")[4].a = "result"

\* The providers of the composite in the order of its cleanup loop: the
\* registered ones, then the default provider if there is one.
AllProviders ==
    IF defaultProvider = "none" THEN providers
    ELSE Append(providers, defaultProvider)

\* C38: a cleanup call on a CompositeFileProvider calls cleanup on every
\* registered provider, in order, and then on the default provider, also
\* when the cleanup of an earlier provider raises; and it raises nothing
\* to its caller.
C38_CompositeCleanupReachesEveryProvider ==
    \A i \in 1..Len(cleanLog) :
        cleanLog[i].on = "CompositeFileProvider" =>
            /\ cleanLog[i].called = AllProviders
            /\ ~cleanLog[i].raised

\* A composite whose first provider's cleanup raises, with a second
\* provider and a default provider, cleaned an existing file.
C38_Witness ==
    /\ Len(providers) >= 2
    /\ providers[1] = "FaultyProvider"
    /\ providers[2] = "LocalFileProvider"
    /\ defaultProvider = "S3FileProvider"
    /\ \E i \in 1..Len(cleanLog) :
          /\ cleanLog[i].on = "CompositeFileProvider"
          /\ cleanLog[i].before.kind = "file"
          /\ cleanLog[i].after.kind = "absent"
          /\ Len(cleanLog[i].called) = Len(providers) + 1

\* C39: over any sequence of emit and close calls on an SSELogSink, an
\* emit made before the first close hands exactly one message, the frame of
\* its event, to the send callback; an emit made after a close hands it
\* nothing; and no emit raises, whether the callback raises or not.
C39_OneSendPerEmitUntilClose ==
    \A i \in 1..Len(sseLog) :
        sseLog[i].op = "emit" =>
            /\ ~sseLog[i].raised
            /\ IF \E j \in 1..(i - 1) : sseLog[j].op = "close"
               THEN sseLog[i].sent = <<>>
               ELSE sseLog[i].sent =
                        <<SSEMessage(sseLog[i].level, sseLog[i].message,
                                     sseLog[i].metadata)>>

\* An emit whose callback raised, then a close, then another emit.
C39_Witness ==
    /\ Len(sseLog) = 3
    /\ sseLog[1].op = "emit"
    /\ sseLog[1].callback = "raises"
    /\ sseLog[1].metadata = "given"
    /\ Len(sseLog[1].sent) = 1
    /\ sseLog[2].op = "close"
    /\ sseLog[3].op = "emit"
    /\ sseLog[3].sent = <<>>
    /\ sseClosed

=============================================================================
